---- MODULE Spec2Model ----
(***************************************************************************)
(* Plugin execution subsystem of tts-server-web:                           *)
(*   - PluginManager (api/plugins/js_engine.py): the registry              *)
(*   - PluginEngine  (api/plugins/engine.py): one engine instance          *)
(*   - FileSystem    (api/plugins/runtime/filesystem.py): the sandbox      *)
(*                                                                         *)
(* Spec    : caller threads, the registry lock and each engine's worker.   *)
(* SpecFS  : the sandboxed filesystem of one plugin.                       *)
(* SpecEngine : an engine object used directly by the code that made it.   *)
(* SpecTeardown : the same, with cipher handles and the object's disposal. *)
(* SpecCrypto : plugins that create symmetric ciphers while they load.     *)
(* SpecCodec  : the byte-array and base64 conversions of the host bridge.  *)
(* SpecVars   : the variable store of one plugin (TtsrvRuntime).           *)
(***************************************************************************)
EXTENDS Integers, Sequences, FiniteSets, TLC

\* ---------------------------------------------------------------- bounds
MaxEngines == 2
MaxCalls == 3
MaxFsOps == 2
MaxCrypto == 1
MaxLen == 4
MaxVarOps == 3
MaxChunks == 1       \* sub-chunks before the fmt chunk of a WAV buffer
MaxChunkSize == 2    \* declared size of such a sub-chunk
MaxItems == 3        \* pieces a plugin source is put together from
MaxJunk == 1         \* bytes between an ID3v2 tag and the first MP3 frame

\* ------------------------------------------------------------- universe
Callers == {"t1", "t2"}
PluginIds == {"p1", "p2"}
Engines == 1..MaxEngines
NoEngine == 0
NoThread == "none"

\* PluginConfig (types/plugin.py): the identifier, the guest source (abstracted
\* to whether it evaluates or throws at top level) and the version.
NoConfig == [pluginId |-> "", code |-> "none", version |-> 0]
Configs ==
    { [pluginId |-> "p1", code |-> "ok",     version |-> 1],
      [pluginId |-> "p1", code |-> "throws", version |-> 2],
      [pluginId |-> "p2", code |-> "ok",     version |-> 1],
      [pluginId |-> "",   code |-> "ok",     version |-> 1] }

\* ThreadPoolExecutor(max_workers=1)
MAX_WORKERS == 1

VARIABLES
    engines,      \* PluginManager._engines : plugin id -> engine (NoEngine = absent)
    configs,      \* PluginManager._configs : plugin id -> config (NoConfig = absent)
    lockOwner,    \* PluginManager._engine_lock
    nEngines,     \* number of PluginEngine objects constructed so far
    eConfig,      \* PluginEngine._config
    eOrigin,      \* who holds the engine object: "none" (not constructed),
                  \* "registry" (a register/reload in progress only), "published"
                  \* (it is or was in PluginManager._engines), "creator" (a direct
                  \* PluginEngine(...) whose load is in progress), "direct"
    eLoaded,      \* PluginEngine._loaded
    eCtx,         \* PluginEngine._ctx : "None" or "Context"
    eError,       \* PluginEngine._error : "None" or "err"
    eQueue,       \* PluginEngine._executor : its work queue
    eRunning,     \* PluginEngine._executor : work items its worker threads execute
    callerEval,   \* caller threads currently inside self._ctx.eval of an engine
    nSubmitted,   \* per engine: number of work items submitted
    lastStarted,  \* per engine: submission number of the item started last
    pc,           \* per caller thread: position in its current call
    loc,          \* per caller thread: locals of its current call
    calls,        \* number of calls started
    fs,           \* the filesystem: absolute path -> "none" | "file" | "dir"
    fsLast,       \* the last sandbox operation: name, escaping?, outcome, paths touched
    fsOps,        \* number of sandbox operations performed
    eExecutor,    \* PluginEngine._executor : "running" or "shutdown"
    eCrypto,      \* PluginEngine._crypto_objects : the set of handle numbers in the table
    eCryptoCounter, \* PluginEngine._crypto_counter
    cryptoLast,   \* the last createSymmetricCrypto call: arguments and what came of it
    defVars,      \* TtsrvRuntime._def_vars : key -> value (absent keys not in the domain)
    userVars,     \* TtsrvRuntime._user_vars
    varLast,      \* the last setVar / getVar / removeVar call and its result
    varObjs,      \* the dict objects around the store: the definition's userVars
                  \* and the last getUserVars() result, each with its content
                  \* and whether it is the very object TtsrvRuntime._user_vars is
    codecLast,    \* the last byte-array / base64 conversion and its result
    mgr,          \* the PluginManager class and its one instance: cls._instance (0 =
                  \* None, else the object's number), the objects made so far,
                  \* cls._lock, self._initialized, and the instance each thread got
    audio,        \* one getAudioSampleRate(data) call: the buffer, the detected format,
                  \* where the call is, the scan offset and limit, and the result
    rhino         \* a plugin source given to the compatibility layer, and what
                  \* preprocess_code, remove_java_imports and detect_rhino_features
                  \* made of it

engineVars == <<engines, configs, lockOwner, nEngines, eConfig, eOrigin, eLoaded, eCtx, eError,
                eQueue, eRunning, callerEval, nSubmitted, lastStarted, pc, loc, calls>>
engineVarsButPc == <<engines, configs, lockOwner, nEngines, eConfig, eOrigin, eLoaded, eCtx,
                     eError, eQueue, eRunning, callerEval, nSubmitted, lastStarted>>
fsVars == <<fs, fsLast, fsOps>>
hostVarsButMgr == <<eExecutor, eCrypto, eCryptoCounter, cryptoLast, defVars, userVars, varLast,
                    varObjs, codecLast, audio, rhino>>
hostVarsButAudio == <<eExecutor, eCrypto, eCryptoCounter, cryptoLast, defVars, userVars,
                      varLast, varObjs, codecLast, mgr, rhino>>
hostVarsButRhino == <<eExecutor, eCrypto, eCryptoCounter, cryptoLast, defVars, userVars,
                      varLast, varObjs, codecLast, mgr, audio>>
hostVars == <<eExecutor, eCrypto, eCryptoCounter, cryptoLast, defVars, userVars, varLast,
              varObjs, codecLast, mgr, audio, rhino>>
vars == <<engines, configs, lockOwner, nEngines, eConfig, eOrigin, eLoaded, eCtx, eError,
          eQueue, eRunning, callerEval, nSubmitted, lastStarted, pc, loc, calls,
          fs, fsLast, fsOps,
          eExecutor, eCrypto, eCryptoCounter, cryptoLast, defVars, userVars, varLast,
          varObjs, codecLast, mgr, audio, rhino>>

\* ------------------------------------------------------------- results
\* What a call hands back to its caller.  PluginAudioResult keeps its two
\* optional fields: audio in {"None","empty","bytes"}, error in {"None","empty","msg"}.
NoRes == [type |-> "none", val |-> "-", audio |-> "None", error |-> "None"]
BoolRes(b) == [type |-> "bool", val |-> IF b THEN "true" ELSE "false",
               audio |-> "None", error |-> "None"]
CountRes(n) == [type |-> "count", val |-> ToString(n), audio |-> "None", error |-> "None"]
PluginAudioResult(a, er) == [type |-> "audio", val |-> "-", audio |-> a, error |-> er]
LocalesRes(v) == [type |-> "locales", val |-> v, audio |-> "None", error |-> "None"]
VoicesRes(v) == [type |-> "voices", val |-> v, audio |-> "None", error |-> "None"]
RaisedRes == [type |-> "raised", val |-> "-", audio |-> "None", error |-> "None"]

is_success(r) == r.audio # "None" /\ r.error = "None"

\* history of a guest call: what the plugin's EditorJS and PluginJS entry
\* points do, and which of them the engine called, in order
NoProbe == [E |-> "none", P |-> "none", called |-> <<>>]

NoLoc == [op |-> "none", id |-> "", cfg |-> NoConfig, eng |-> NoEngine, old |-> NoEngine,
          cont |-> "none", todo |-> {}, count |-> 0, res |-> NoRes, loadFailed |-> FALSE,
          guest |-> "none", atStart |-> "none", mark |-> 0, found |-> "none",
          hook |-> "none", teardown |-> "none", probe |-> NoProbe]

\* ------------------------------------------------- guest entry points
\* What PluginJS.getAudio does when called (engine.py:1179-1293).  `audio` and
\* `error` describe the fields of a returned object or the returned value:
\*   audio: "absent" | "null" | "empty" | "b64ok" (decodes to >= 1 byte) |
\*          "b64empty" (decodes to zero bytes, e.g. "====") | "b64bad"
\*          (b64decode raises) | "nonstring"
\*   error: "absent" | "null" | "empty" | "msg"
GuestAudio ==
    { [shape |-> "undefined_entry", audio |-> "absent", error |-> "absent"],
      \* getAudio defined on EditorJS only (it would return audio)
      [shape |-> "editor_only",     audio |-> "b64ok",  error |-> "absent"],
      [shape |-> "throws",          audio |-> "absent", error |-> "absent"],
      [shape |-> "throws_null",     audio |-> "absent", error |-> "absent"],
      [shape |-> "falsy",           audio |-> "absent", error |-> "absent"],
      [shape |-> "other",           audio |-> "absent", error |-> "absent"],
      [shape |-> "error_obj",       audio |-> "absent", error |-> "msg"] }
    \cup { [shape |-> "array", audio |-> a, error |-> "absent"] :
              a \in {"empty", "b64ok", "nonstring"} }
    \cup { [shape |-> "response", audio |-> a, error |-> "absent"] :
              a \in {"empty", "b64ok"} }
    \cup { [shape |-> "bodyBytes", audio |-> a, error |-> "absent"] :
              a \in {"b64ok", "b64empty", "b64bad", "nonstring"} }
    \cup { [shape |-> "audio_obj", audio |-> a, error |-> er] :
              a \in {"b64ok", "b64empty", "b64bad", "nonstring"},
              er \in {"absent", "null", "empty", "msg"} }
    \cup { [shape |-> "string", audio |-> a, error |-> "absent"] :
              a \in {"b64ok", "b64empty", "b64bad"} }

\* The JavaScript wrapper around PluginJS.getAudio: the JSON it returns, or
\* raised = TRUE when the eval itself raises.
JsGetAudio(g) ==
    CASE g.shape = "undefined_entry" -> [raised |-> FALSE, audio |-> "absent", error |-> "msg"]
      \* `typeof PluginJS.getAudio !== "function"`: EditorJS is not looked at
      [] g.shape = "editor_only"     -> [raised |-> FALSE, audio |-> "absent", error |-> "msg"]
      [] g.shape = "throws"          -> [raised |-> FALSE, audio |-> "absent", error |-> "msg"]
      [] g.shape = "throws_null"     -> [raised |-> TRUE,  audio |-> "absent", error |-> "absent"]
      [] g.shape = "falsy"           -> [raised |-> FALSE, audio |-> "absent", error |-> "msg"]
      [] g.shape = "array"           ->
            \* __py_arrayToBase64: '' for an empty array or when the conversion fails
            [raised |-> FALSE, error |-> "absent",
             audio |-> IF g.audio = "b64ok" THEN "b64ok" ELSE "empty"]
      [] g.shape = "response"        ->
            IF g.audio = "b64ok"
            THEN [raised |-> FALSE, audio |-> "b64ok", error |-> "absent"]
            ELSE [raised |-> FALSE, audio |-> "absent", error |-> "msg"]
      [] g.shape = "bodyBytes"       -> [raised |-> FALSE, audio |-> g.audio, error |-> "absent"]
      [] g.shape = "audio_obj"       -> [raised |-> FALSE, audio |-> g.audio, error |-> g.error]
      [] g.shape = "error_obj"       -> [raised |-> FALSE, audio |-> "absent", error |-> "msg"]
      [] g.shape = "string"          -> [raised |-> FALSE, audio |-> g.audio, error |-> "absent"]
      [] OTHER                       -> [raised |-> FALSE, audio |-> "absent", error |-> "msg"]

\* `except Exception as e: return PluginAudioResult(error=str(e))`
AudioExceptMutant == RaisedRes
AudioExcept == PluginAudioResult("None", "msg")

\* _get_audio_sync: runs on the engine's worker; ctx is self._ctx as read there.
_get_audio_sync(ctx, g) ==
    IF ctx = "None" THEN AudioExcept          \* None.eval -> AttributeError
    ELSE LET j == JsGetAudio(g) IN
         IF j.raised THEN AudioExcept
         ELSE IF j.error # "absent"
              THEN PluginAudioResult("None", IF j.error = "null" THEN "None" ELSE j.error)
         ELSE IF j.audio \in {"absent", "null", "empty"}
              THEN PluginAudioResult("None", "msg")
         ELSE IF j.audio \in {"b64bad", "nonstring"}
              THEN PluginAudioResult("None", "msg")
         ELSE PluginAudioResult(IF j.audio = "b64empty" THEN "empty" ELSE "bytes", "None")

\* What EditorJS / PluginJS getLocales and getVoices do when called:
\* "undef" (no such function), "throws", "nonarray" (a number or a string),
\* "empty" (an empty array), "list" (a non-empty array of entries).
EnumShapes == {"undef", "throws", "nonarray", "empty", "list"}
GuestEnum == [E : EnumShapes, P : EnumShapes]

\* `except Exception: return [PluginLocale(code='zh-CN', ...)]`
LocalesExcept == LocalesRes("default")

_get_locales_syncMutant(ctx, g) ==
    IF ctx = "None" THEN LocalesExcept
    ELSE IF g.P = "throws" THEN LocalesExcept
    ELSE IF g.P = "list" THEN LocalesRes("P")
    ELSE IF g.E = "throws" THEN LocalesExcept
    ELSE IF g.E = "list" THEN LocalesRes("E")
    ELSE LocalesRes("default")
_get_locales_sync(ctx, g) ==
    IF ctx = "None" THEN LocalesExcept
    ELSE IF g.E = "throws" THEN LocalesExcept
    ELSE IF g.E = "list" THEN LocalesRes("E")
    ELSE IF g.P = "throws" THEN LocalesExcept
    ELSE IF g.P = "list" THEN LocalesRes("P")
    ELSE LocalesRes("default")

\* `except Exception: return []`
VoicesExcept == VoicesRes("empty")

_get_voices_sync(ctx, g) ==
    IF ctx = "None" THEN VoicesExcept
    ELSE IF g.E = "throws" THEN VoicesExcept
    ELSE IF g.E = "list" THEN VoicesRes("E")
    ELSE IF g.P = "throws" THEN VoicesExcept
    ELSE IF g.P = "list" THEN VoicesRes("P")
    ELSE VoicesRes("empty")

\* Did the guest entry point throw?
GuestThrew(kind, g) ==
    IF kind = "get_audio" THEN g.shape \in {"throws", "throws_null"}
    ELSE g.E = "throws" \/ (g.E # "list" /\ g.P = "throws")

\* What the guest entry point gave: "threw", "nolist" (an enumeration that
\* produced no list), "returned".
GuestGave(kind, g) ==
    IF GuestThrew(kind, g) THEN "threw"
    ELSE IF kind # "get_audio" /\ g.E # "list" /\ g.P # "list" THEN "nolist"
    ELSE "returned"

\* Which entry points the JavaScript of a *_sync function calls, in order.
EnumCalled(g) ==
    (IF g.E # "undef" THEN <<"EditorJS">> ELSE <<>>)
    \o (IF g.E \in {"undef", "nonarray", "empty"} /\ g.P # "undef"
        THEN <<"PluginJS">> ELSE <<>>)
AudioCalled(g) ==
    IF g.shape \in {"undefined_entry", "editor_only"} THEN <<>> ELSE <<"PluginJS">>

Probe(kind, g) ==
    IF kind = "get_audio"
    THEN [E |-> IF g.shape = "editor_only" THEN "audio" ELSE "undef",
          P |-> IF g.shape \in {"undefined_entry", "editor_only"} THEN "undef" ELSE g.shape,
          called |-> AudioCalled(g)]
    ELSE [E |-> g.E, P |-> g.P, called |-> EnumCalled(g)]

\* ---------------------------------------------------------- the worker
\* ThreadPoolExecutor: may another work item start while `running` execute?
CanStart(running) == Cardinality(running) < MAX_WORKERS

\* ThreadPoolExecutor._work_queue (queue.SimpleQueue) is FIFO
TakeNextLifo(queue) == [item |-> queue[Len(queue)], rest |-> SubSeq(queue, 1, Len(queue) - 1)]
TakeNext(queue) == [item |-> Head(queue), rest |-> Tail(queue)]

\* loop.run_in_executor(self._executor, fn, ...)
Submit(e, t, kind) ==
    /\ nSubmitted' = [nSubmitted EXCEPT ![e] = @ + 1]
    /\ eQueue' = [eQueue EXCEPT ![e] =
                     Append(@, [caller |-> t, kind |-> kind, seq |-> nSubmitted[e] + 1])]

SyncResult(kind, ctx, g) ==
    CASE kind = "get_audio"   -> _get_audio_sync(ctx, g)
      [] kind = "get_locales" -> _get_locales_sync(ctx, g)
      [] OTHER                -> _get_voices_sync(ctx, g)

GuestOf(kind) == IF kind = "get_audio" THEN GuestAudio ELSE GuestEnum

\* The future of a work item resolves: the awaiting caller gets the result.
Deliver(task, res, guest, probe) ==
    /\ pc' = [pc EXCEPT ![task.caller] = "ret"]
    /\ loc' = [loc EXCEPT ![task.caller].res = res, ![task.caller].guest = guest,
                          ![task.caller].probe = probe]

\* history: was the engine loaded when the work item started?
LoadedAt(e) == IF eLoaded[e] THEN "loaded" ELSE "unloaded"

\* The worker takes the next work item and calls the *_sync function, which
\* reads self._ctx.  With no context the call fails at once (AttributeError,
\* caught); otherwise the guest code starts to run.
WorkerStart(e) ==
    /\ eQueue[e] # <<>>
    /\ CanStart(eRunning[e])
    /\ LET task == TakeNext(eQueue[e]).item
       IN /\ eQueue' = [eQueue EXCEPT ![e] = TakeNext(@).rest]
          /\ lastStarted' = [lastStarted EXCEPT ![e] = task.seq]
          /\ IF eCtx[e] = "None"
             THEN /\ \E g \in GuestOf(task.kind) :
                        /\ pc' = [pc EXCEPT ![task.caller] = "ret"]
                        /\ loc' = [loc EXCEPT
                              ![task.caller].res = SyncResult(task.kind, "None", g),
                              ![task.caller].guest = "not_run",
                              ![task.caller].atStart = LoadedAt(e)]
                  /\ UNCHANGED eRunning
             ELSE /\ eRunning' = [eRunning EXCEPT ![e] = @ \cup {task}]
                  /\ loc' = [loc EXCEPT ![task.caller].atStart = LoadedAt(e)]
                  /\ UNCHANGED pc
    /\ UNCHANGED <<engines, configs, lockOwner, nEngines, eConfig, eOrigin, eLoaded, eCtx, eError,
                   callerEval, nSubmitted, calls, fsVars, hostVars>>

\* The guest code of a running work item returns or throws.  An eval that
\* overlapped another eval on the same context is a data race in the
\* interpreter; its outcome is any outcome of the eval, which the choice of g
\* already covers.
WorkerFinish(e) ==
    \E task \in eRunning[e] :
        /\ eRunning' = [eRunning EXCEPT ![e] = @ \ {task}]
        /\ \E g \in GuestOf(task.kind) :
              Deliver(task, SyncResult(task.kind, "Context", g),
                      GuestGave(task.kind, g), Probe(task.kind, g))
        /\ UNCHANGED <<engines, configs, lockOwner, nEngines, eConfig, eOrigin, eLoaded, eCtx, eError,
                       eQueue, callerEval, nSubmitted, lastStarted, calls, fsVars, hostVars>>

\* ------------------------------------------------------- caller threads
\* threading.RLock: may a thread that does not hold it enter `with self._engine_lock`?
LockAvailableMutant == TRUE
LockAvailable == lockOwner = NoThread

Idle(t) == pc[t] = "idle" /\ calls < MaxCalls

\* Calls that may still construct an engine (keeps nEngines within MaxEngines).
Constructing ==
    { u \in Callers : loc[u].op \in {"register", "reload", "engine_load"}
                       /\ loc[u].eng = NoEngine
                       /\ pc[u] # "ret" }

Begin(t, op, id, cfg, to) ==
    /\ pc' = [pc EXCEPT ![t] = to]
    /\ loc' = [loc EXCEPT ![t] = [NoLoc EXCEPT !.op = op, !.id = id, !.cfg = cfg]]
    /\ calls' = calls + 1

Goto(t, to) == pc' = [pc EXCEPT ![t] = to]

Ret(t, res) ==
    /\ pc' = [pc EXCEPT ![t] = "ret"]
    /\ loc' = [loc EXCEPT ![t].res = res]

\* PluginManager.register, up to the lock
CallRegister(t, cfg) ==
    /\ Idle(t)
    /\ nEngines + Cardinality(Constructing) < MaxEngines
    /\ IF cfg.pluginId = ""
       THEN /\ pc' = [pc EXCEPT ![t] = "ret"]
            /\ loc' = [loc EXCEPT ![t] = [NoLoc EXCEPT !.op = "register", !.cfg = cfg,
                                                      !.res = BoolRes(FALSE)]]
            /\ calls' = calls + 1
       ELSE Begin(t, "register", cfg.pluginId, cfg, "reg_lock")
    /\ UNCHANGED <<engines, configs, lockOwner, nEngines, eConfig, eOrigin, eLoaded, eCtx, eError,
                   eQueue, eRunning, callerEval, nSubmitted, lastStarted, fsVars, hostVars>>

\* register: `with self._engine_lock:` and the test `plugin_id in self._engines`
RegisterLock(t) ==
    /\ pc[t] = "reg_lock"
    /\ LockAvailable
    /\ lockOwner' = t
    /\ Goto(t, IF engines[loc[t].id] # NoEngine THEN "unreg_pop" ELSE "new_engine")
    /\ UNCHANGED <<engines, configs, nEngines, eConfig, eOrigin, eLoaded, eCtx, eError, loc,
                   eQueue, eRunning, callerEval, nSubmitted, lastStarted, calls, fsVars, hostVars>>

CallUnregister(t, id) ==
    /\ Idle(t)
    /\ Begin(t, "unregister", id, NoConfig, "unr_lock")
    /\ UNCHANGED <<engines, configs, lockOwner, nEngines, eConfig, eOrigin, eLoaded, eCtx, eError,
                   eQueue, eRunning, callerEval, nSubmitted, lastStarted, fsVars, hostVars>>

UnregisterLock(t) ==
    /\ pc[t] = "unr_lock"
    /\ LockAvailable
    /\ lockOwner' = t
    /\ Goto(t, "unreg_pop")
    /\ UNCHANGED <<engines, configs, nEngines, eConfig, eOrigin, eLoaded, eCtx, eError, loc,
                   eQueue, eRunning, callerEval, nSubmitted, lastStarted, calls, fsVars, hostVars>>

\* Where a call continues when _unregister_unsafe returns.
AfterUnregister(t) ==
    CASE loc[t].op \in {"unregister", "engine_unload"} -> "ret"
      [] loc[t].op = "unregister_all" -> "ua_loop"
      [] OTHER                        -> "new_engine"

\* _unregister_unsafe: the membership test and the two pops
\* _unregister_unsafe: `engine = self._engines.pop(plugin_id)` and
\* `self._configs.pop(plugin_id, None)`
PopEngineMutant(map, id) == map
PopEngine(map, id) == [map EXCEPT ![id] = NoEngine]

PopConfigMutant(map, id) == map
PopConfig(map, id) == [map EXCEPT ![id] = NoConfig]

UnregisterPop(t) ==
    /\ pc[t] = "unreg_pop"
    /\ LET id == loc[t].id IN
       IF engines[id] = NoEngine
       THEN /\ Goto(t, AfterUnregister(t))
            /\ loc' = [loc EXCEPT ![t].res =
                          IF loc[t].op = "unregister" THEN BoolRes(FALSE) ELSE @]
            /\ UNCHANGED <<engines, configs>>
       ELSE /\ engines' = PopEngine(engines, id)
            /\ configs' = PopConfig(configs, id)
            /\ loc' = [loc EXCEPT ![t].old = engines[id]]
            /\ Goto(t, "unload_check")
    /\ UNCHANGED <<lockOwner, nEngines, eConfig, eOrigin, eLoaded, eCtx, eError,
                   eQueue, eRunning, callerEval, nSubmitted, lastStarted, calls, fsVars, hostVars>>

\* PluginEngine.unload: `if not self._loaded: return`, then the teardown
\* hook is evaluated on the calling thread when there is a context.
\* (history: mark = the number of work items submitted so far, found = the
\* loaded flag as unload tested it)
UnloadCheck(t) ==
    /\ pc[t] = "unload_check"
    /\ LET e == loc[t].old IN
       IF ~eLoaded[e]
       THEN /\ Goto(t, "unload_done")
            /\ UNCHANGED callerEval
       ELSE IF eCtx[e] # "None"
       THEN /\ callerEval' = [callerEval EXCEPT ![e] = @ \cup {t}]
            /\ Goto(t, "unload_hook")
       ELSE /\ Goto(t, "unload_cleanup")
            /\ UNCHANGED callerEval
    /\ loc' = [loc EXCEPT ![t].mark = nSubmitted[loc[t].old],
                          ![t].found = LoadedAt(loc[t].old)]
    /\ UNCHANGED <<engines, configs, lockOwner, nEngines, eConfig, eOrigin, eLoaded, eCtx, eError,
                   eQueue, eRunning, nSubmitted, lastStarted, calls, fsVars, hostVars>>

\* The eval of the teardown hook (PluginJS.onUnload) returns or raises;
\* `except Exception: pass`.  (history: teardown = "threw" when it raised)
UnloadHook(t) ==
    /\ pc[t] = "unload_hook"
    /\ callerEval' = [callerEval EXCEPT ![loc[t].old] = @ \ {t}]
    /\ Goto(t, "unload_cleanup")
    /\ \E h \in {"returns", "throws"} :
          loc' = [loc EXCEPT ![t].teardown = IF h = "throws" THEN "threw" ELSE @]
    /\ UNCHANGED <<engines, configs, lockOwner, nEngines, eConfig, eOrigin, eLoaded, eCtx, eError,
                   eQueue, eRunning, nSubmitted, lastStarted, calls, fsVars, hostVars>>

\* PluginEngine._cleanup: `self._ctx = None`
CleanupCtxMutant(ctx) == ctx
CleanupCtx(ctx) == "None"

\* unload: `finally: self._cleanup()`
UnloadCleanup(t) ==
    /\ pc[t] = "unload_cleanup"
    /\ eCtx' = [eCtx EXCEPT ![loc[t].old] = CleanupCtx(@)]
    /\ eLoaded' = [eLoaded EXCEPT ![loc[t].old] = FALSE]
    /\ Goto(t, "unload_done")
    /\ UNCHANGED <<engines, configs, lockOwner, nEngines, eConfig, eOrigin, eError, loc,
                   eQueue, eRunning, callerEval, nSubmitted, lastStarted, calls, fsVars, hostVars>>

\* _unregister_unsafe returns True after engine.unload()
UnregisterDone(t) ==
    /\ pc[t] = "unload_done"
    /\ Goto(t, AfterUnregister(t))
    /\ loc' = [loc EXCEPT ![t].res = IF loc[t].op = "unregister" THEN BoolRes(TRUE) ELSE @,
                          ![t].count = IF loc[t].op = "unregister_all" THEN @ + 1 ELSE @]
    /\ UNCHANGED <<engines, configs, lockOwner, nEngines, eConfig, eOrigin, eLoaded, eCtx, eError,
                   eQueue, eRunning, callerEval, nSubmitted, lastStarted, calls, fsVars, hostVars>>

\* register / reload: `engine = PluginEngine(config)`; the constructor may
\* raise (it creates the plugin's data directory), which `except Exception`
\* turns into `return False`.
NewEngine(t) ==
    /\ pc[t] = "new_engine"
    /\ \E ctorOk \in IF loc[t].op = "engine_load" THEN {TRUE} ELSE BOOLEAN :
         IF ctorOk
         THEN /\ nEngines' = nEngines + 1
              /\ eConfig' = [eConfig EXCEPT ![nEngines + 1] = loc[t].cfg]
              /\ eOrigin' = [eOrigin EXCEPT ![nEngines + 1] =
                               IF loc[t].op = "engine_load" THEN "creator" ELSE "registry"]
              /\ loc' = [loc EXCEPT ![t].eng = nEngines + 1]
              /\ Goto(t, "load_begin")
         ELSE /\ Ret(t, BoolRes(FALSE))
              /\ UNCHANGED <<nEngines, eConfig, eOrigin>>
    /\ UNCHANGED <<engines, configs, lockOwner, eLoaded, eCtx, eError,
                   eQueue, eRunning, callerEval, nSubmitted, lastStarted, calls, fsVars, hostVars>>

\* load: `except Exception as e: self._error = str(e); self._cleanup(); return False`
LoadFailureMutant(e) ==
    /\ eError' = [eError EXCEPT ![e] = "err"]
    /\ eCtx' = [eCtx EXCEPT ![e] = "Context"]
    /\ eLoaded' = [eLoaded EXCEPT ![e] = TRUE]
LoadFailure(e) ==
    /\ eError' = [eError EXCEPT ![e] = "err"]
    /\ eCtx' = [eCtx EXCEPT ![e] = CleanupCtx(@)]
    /\ eLoaded' = [eLoaded EXCEPT ![e] = FALSE]

\* The steps of load() before the first eval, and where each may raise.
LoadFailSteps == {"none", "context", "inject", "preprocess"}

\* register / reload: `if not engine.load(): return False`
RegisterAfterLoadMutant(ok) == "insert"
RegisterAfterLoad(ok) == IF ok THEN "insert" ELSE "ret"

\* load() returns `ok` to register / reload, or to the caller that holds
\* the engine itself (history: found = the loaded flag as load tested it).
LoadReturns(t, ok, found, hook) ==
    LET direct == loc[t].op = "engine_load" IN
    /\ pc' = [pc EXCEPT ![t] = IF direct THEN "ret" ELSE RegisterAfterLoad(ok)]
    /\ loc' = [loc EXCEPT ![t].res = IF direct THEN BoolRes(ok)
                                     ELSE IF ok THEN @ ELSE BoolRes(FALSE),
                          ![t].loadFailed = ~ok,
                          ![t].found = found,
                          ![t].hook = hook]
    /\ eOrigin' = IF direct THEN [eOrigin EXCEPT ![loc[t].eng] = "direct"] ELSE eOrigin

\* load: `if self._loaded: return True`
AlreadyLoadedMutant(e) == FALSE
AlreadyLoaded(e) == eLoaded[e]

\* PluginEngine.load: the already-loaded test, the context, the injected
\* runtime, the preprocessed source; then the source starts to evaluate on
\* the calling thread.
LoadBegin(t) ==
    /\ pc[t] = "load_begin"
    /\ LET e == loc[t].eng IN
       IF AlreadyLoaded(e)
       THEN /\ LoadReturns(t, TRUE, "loaded", "none")
            /\ UNCHANGED <<eError, eCtx, eLoaded, callerEval>>
       ELSE \E f \in LoadFailSteps :
              IF f = "none"
              THEN /\ eCtx' = [eCtx EXCEPT ![e] = "Context"]
                   /\ callerEval' = [callerEval EXCEPT ![e] = @ \cup {t}]
                   /\ Goto(t, "load_eval")
                   /\ UNCHANGED <<eError, eLoaded, loc, eOrigin>>
              ELSE /\ LoadFailure(e)
                   /\ LoadReturns(t, FALSE, "unloaded", "none")
                   /\ UNCHANGED callerEval
    /\ UNCHANGED <<engines, configs, lockOwner, nEngines, eConfig,
                   eQueue, eRunning, nSubmitted, lastStarted, calls, fsVars, hostVars>>

\* load: the eval of the source returns or raises, then the eval of the
\* timezone shim returns or raises.
LoadEval(t) ==
    /\ pc[t] = "load_eval"
    /\ LET e == loc[t].eng IN
       \E shimOk \in BOOLEAN :
          IF eConfig[e].code = "ok" /\ shimOk
          THEN /\ Goto(t, "load_hook")
               /\ UNCHANGED <<eError, eCtx, eLoaded, callerEval, loc, eOrigin>>
          ELSE /\ LoadFailure(e)
               /\ LoadReturns(t, FALSE, "unloaded", "none")
               /\ callerEval' = [callerEval EXCEPT ![e] = @ \ {t}]
    /\ UNCHANGED <<engines, configs, lockOwner, nEngines, eConfig,
                   eQueue, eRunning, nSubmitted, lastStarted, calls, fsVars, hostVars>>

\* What EditorJS.onLoadData / PluginJS.onLoad do when load calls them:
\* "returns" (or not defined), "throws" (an Error object), "throws_null"
\* (`throw null` or `throw undefined`).
InitHookOutcomes == {"returns", "throws", "throws_null"}

\* load: the init hooks run inside a JavaScript try/catch whose handler
\* reads e.message and e.stack; with e null or undefined the handler itself
\* throws a TypeError and the eval raises.
InitHookEvalRaises(h) == h = "throws_null"

\* load: the eval of the init hooks returns, then `self._loaded = True;
\* self._error = None`; or the eval raises and load fails.
\* (history: hook = "threw" when the init hook threw)
LoadHook(t) ==
    /\ pc[t] = "load_hook"
    /\ LET e == loc[t].eng IN
       \E h \in InitHookOutcomes :
          /\ callerEval' = [callerEval EXCEPT ![e] = @ \ {t}]
          /\ IF InitHookEvalRaises(h)
             THEN /\ LoadFailure(e)
                  /\ LoadReturns(t, FALSE, "unloaded", "threw")
             ELSE /\ eLoaded' = [eLoaded EXCEPT ![e] = TRUE]
                  /\ eError' = [eError EXCEPT ![e] = "None"]
                  /\ UNCHANGED eCtx
                  /\ LoadReturns(t, TRUE, "unloaded", IF h = "throws" THEN "threw" ELSE "none")
    /\ UNCHANGED <<engines, configs, lockOwner, nEngines, eConfig,
                   eQueue, eRunning, nSubmitted, lastStarted, calls, fsVars, hostVars>>

\* register / reload: `self._engines[plugin_id] = engine;
\* self._configs[plugin_id] = config; return True`
Insert(t) ==
    /\ pc[t] = "insert"
    /\ engines' = [engines EXCEPT ![loc[t].id] = loc[t].eng]
    /\ configs' = [configs EXCEPT ![loc[t].id] = loc[t].cfg]
    /\ eOrigin' = [eOrigin EXCEPT ![loc[t].eng] = "published"]
    /\ Ret(t, BoolRes(TRUE))
    /\ UNCHANGED <<lockOwner, nEngines, eConfig, eLoaded, eCtx, eError,
                   eQueue, eRunning, callerEval, nSubmitted, lastStarted, calls, fsVars, hostVars>>

\* The call returns to its caller; a `with self._engine_lock` block ends.
Return(t) ==
    /\ pc[t] = "ret"
    /\ pc' = [pc EXCEPT ![t] = "idle"]
    /\ loc' = [loc EXCEPT ![t] = NoLoc]
    /\ lockOwner' = IF lockOwner = t THEN NoThread ELSE lockOwner
    /\ UNCHANGED <<engines, configs, nEngines, eConfig, eOrigin, eLoaded, eCtx, eError,
                   eQueue, eRunning, callerEval, nSubmitted, lastStarted, calls, fsVars, hostVars>>

\* PluginManager.reload
CallReload(t, id) ==
    /\ Idle(t)
    /\ nEngines + Cardinality(Constructing) < MaxEngines
    /\ Begin(t, "reload", id, NoConfig, "rel_lock")
    /\ UNCHANGED <<engines, configs, lockOwner, nEngines, eConfig, eOrigin, eLoaded, eCtx, eError,
                   eQueue, eRunning, callerEval, nSubmitted, lastStarted, fsVars, hostVars>>

\* reload: `config = self._configs.get(plugin_id)`
LastKnownConfigMutant(id) ==
    IF configs[id] = NoConfig THEN NoConfig ELSE [pluginId |-> id, code |-> "none", version |-> 0]
LastKnownConfig(id) == configs[id]

\* reload: the lock, the stored definition, `if not config: return False`
ReloadLock(t) ==
    /\ pc[t] = "rel_lock"
    /\ LockAvailable
    /\ lockOwner' = t
    /\ IF LastKnownConfig(loc[t].id) = NoConfig
       THEN Ret(t, BoolRes(FALSE))
       ELSE /\ loc' = [loc EXCEPT ![t].cfg = LastKnownConfig(loc[t].id)]
            /\ Goto(t, "unreg_pop")
    /\ UNCHANGED <<engines, configs, nEngines, eConfig, eOrigin, eLoaded, eCtx, eError,
                   eQueue, eRunning, callerEval, nSubmitted, lastStarted, calls, fsVars, hostVars>>

\* PluginManager.unregister_all
CallUnregisterAll(t) ==
    /\ Idle(t)
    /\ Begin(t, "unregister_all", "", NoConfig, "ua_lock")
    /\ UNCHANGED <<engines, configs, lockOwner, nEngines, eConfig, eOrigin, eLoaded, eCtx, eError,
                   eQueue, eRunning, callerEval, nSubmitted, lastStarted, fsVars, hostVars>>

\* unregister_all: the lock and `plugin_ids = list(self._engines.keys())`
UnregisterAllLock(t) ==
    /\ pc[t] = "ua_lock"
    /\ LockAvailable
    /\ lockOwner' = t
    /\ loc' = [loc EXCEPT ![t].todo = {id \in PluginIds : engines[id] # NoEngine}]
    /\ Goto(t, "ua_loop")
    /\ UNCHANGED <<engines, configs, nEngines, eConfig, eOrigin, eLoaded, eCtx, eError,
                   eQueue, eRunning, callerEval, nSubmitted, lastStarted, calls, fsVars, hostVars>>

\* unregister_all: the loop over plugin_ids, `return count`
UnregisterAllLoop(t) ==
    /\ pc[t] = "ua_loop"
    /\ IF loc[t].todo = {}
       THEN Ret(t, CountRes(loc[t].count))
       ELSE \E id \in loc[t].todo :
              /\ loc' = [loc EXCEPT ![t].id = id, ![t].todo = @ \ {id}]
              /\ Goto(t, "unreg_pop")
    /\ UNCHANGED <<engines, configs, lockOwner, nEngines, eConfig, eOrigin, eLoaded, eCtx, eError,
                   eQueue, eRunning, callerEval, nSubmitted, lastStarted, calls, fsVars, hostVars>>

\* PluginManager.synthesize
CallSynthesize(t, id) ==
    /\ Idle(t)
    /\ Begin(t, "synthesize", id, NoConfig, "syn_lookup")
    /\ UNCHANGED <<engines, configs, lockOwner, nEngines, eConfig, eOrigin, eLoaded, eCtx, eError,
                   eQueue, eRunning, callerEval, nSubmitted, lastStarted, fsVars, hostVars>>

\* synthesize: `engine = self.get_engine(plugin_id)` (under the lock),
\* `if not engine: return PluginAudioResult(error=...)`
SynthesizeLookup(t) ==
    /\ pc[t] = "syn_lookup"
    /\ LockAvailable
    /\ IF engines[loc[t].id] = NoEngine
       THEN Ret(t, PluginAudioResult("None", "msg"))
       ELSE /\ loc' = [loc EXCEPT ![t].eng = engines[loc[t].id]]
            /\ Goto(t, "syn_loaded")
    /\ UNCHANGED <<engines, configs, lockOwner, nEngines, eConfig, eOrigin, eLoaded, eCtx, eError,
                   eQueue, eRunning, callerEval, nSubmitted, lastStarted, calls, fsVars, hostVars>>

\* synthesize: `if not engine.is_loaded(): return PluginAudioResult(error=...)`
SynthesizeIsLoaded(t) ==
    /\ pc[t] = "syn_loaded"
    /\ IF eLoaded[loc[t].eng]
       THEN Goto(t, "ga_check") /\ UNCHANGED loc
       ELSE Ret(t, PluginAudioResult("None", "msg"))
    /\ UNCHANGED <<engines, configs, lockOwner, nEngines, eConfig, eOrigin, eLoaded, eCtx, eError,
                   eQueue, eRunning, callerEval, nSubmitted, lastStarted, calls, fsVars, hostVars>>

\* PluginEngine(config).load() by a caller that uses the engine directly
CallEngineLoad(t, cfg) ==
    /\ Idle(t)
    /\ nEngines + Cardinality(Constructing) < MaxEngines
    /\ Begin(t, "engine_load", cfg.pluginId, cfg, "new_engine")
    /\ UNCHANGED <<engines, configs, lockOwner, nEngines, eConfig, eOrigin, eLoaded, eCtx, eError,
                   eQueue, eRunning, callerEval, nSubmitted, lastStarted, fsVars, hostVars>>

\* PluginEngine.get_audio called on an engine object the caller holds: one
\* it got from the registry at some time, or one constructed directly
CallEngineGetAudio(t, e) ==
    /\ Idle(t)
    /\ eOrigin[e] \in {"published", "direct"}
    /\ pc' = [pc EXCEPT ![t] = "ga_check"]
    /\ loc' = [loc EXCEPT ![t] = [NoLoc EXCEPT !.op = "get_audio", !.eng = e]]
    /\ calls' = calls + 1
    /\ UNCHANGED <<engines, configs, lockOwner, nEngines, eConfig, eOrigin, eLoaded, eCtx, eError,
                   eQueue, eRunning, callerEval, nSubmitted, lastStarted, fsVars, hostVars>>

\* engine.load() again on an engine object the caller constructed
CallLoad(t, e) ==
    /\ Idle(t)
    /\ eOrigin[e] = "direct"
    /\ pc' = [pc EXCEPT ![t] = "load_begin"]
    /\ loc' = [loc EXCEPT ![t] = [NoLoc EXCEPT !.op = "engine_load", !.eng = e,
                                              !.id = eConfig[e].pluginId, !.cfg = eConfig[e]]]
    /\ calls' = calls + 1
    /\ UNCHANGED <<engines, configs, lockOwner, nEngines, eConfig, eOrigin, eLoaded, eCtx, eError,
                   eQueue, eRunning, callerEval, nSubmitted, lastStarted, fsVars, hostVars>>

\* engine.unload() on an engine object the caller constructed
CallEngineUnload(t, e) ==
    /\ Idle(t)
    /\ eOrigin[e] = "direct"
    /\ pc' = [pc EXCEPT ![t] = "unload_check"]
    /\ loc' = [loc EXCEPT ![t] = [NoLoc EXCEPT !.op = "engine_unload", !.old = e,
                                              !.id = eConfig[e].pluginId]]
    /\ calls' = calls + 1
    /\ UNCHANGED <<engines, configs, lockOwner, nEngines, eConfig, eOrigin, eLoaded, eCtx, eError,
                   eQueue, eRunning, callerEval, nSubmitted, lastStarted, fsVars, hostVars>>

\* engine.get_locales() / engine.get_voices() on an engine object the
\* caller constructed
CallEngineEnumerate(t, e, op) ==
    /\ Idle(t)
    /\ eOrigin[e] = "direct"
    /\ pc' = [pc EXCEPT ![t] = "enum_check"]
    /\ loc' = [loc EXCEPT ![t] = [NoLoc EXCEPT !.op = op, !.eng = e,
                                              !.id = eConfig[e].pluginId]]
    /\ calls' = calls + 1
    /\ UNCHANGED <<engines, configs, lockOwner, nEngines, eConfig, eOrigin, eLoaded, eCtx, eError,
                   eQueue, eRunning, callerEval, nSubmitted, lastStarted, fsVars, hostVars>>

\* get_audio: `if not self._loaded: return PluginAudioResult(error=...)`
NotLoadedResult == PluginAudioResult("None", "msg")

\* PluginEngine.get_audio: the loaded test and run_in_executor
GetAudio(t) ==
    /\ pc[t] = "ga_check"
    /\ LET e == loc[t].eng IN
       IF eLoaded[e]
       THEN /\ Submit(e, t, "get_audio")
            /\ Goto(t, "await")
            /\ UNCHANGED loc
       ELSE /\ Ret(t, NotLoadedResult)
            /\ UNCHANGED <<eQueue, nSubmitted>>
    /\ UNCHANGED <<engines, configs, lockOwner, nEngines, eConfig, eOrigin, eLoaded, eCtx, eError,
                   eRunning, callerEval, lastStarted, calls, fsVars, hostVars>>

\* PluginManager.get_locales / get_voices
CallEnumerate(t, op, id) ==
    /\ Idle(t)
    /\ Begin(t, op, id, NoConfig, "enum_lookup")
    /\ UNCHANGED <<engines, configs, lockOwner, nEngines, eConfig, eOrigin, eLoaded, eCtx, eError,
                   eQueue, eRunning, callerEval, nSubmitted, lastStarted, fsVars, hostVars>>

EmptyListMutant(op) == LocalesRes("default")
EmptyList(op) == IF op = "get_locales" THEN LocalesRes("empty") ELSE VoicesRes("empty")

\* get_locales / get_voices: `engine = self.get_engine(plugin_id)`,
\* `if not engine: return []`
EnumerateLookup(t) ==
    /\ pc[t] = "enum_lookup"
    /\ LockAvailable
    /\ IF engines[loc[t].id] = NoEngine
       THEN Ret(t, EmptyList(loc[t].op))
       ELSE /\ loc' = [loc EXCEPT ![t].eng = engines[loc[t].id]]
            /\ Goto(t, "enum_check")
    /\ UNCHANGED <<engines, configs, lockOwner, nEngines, eConfig, eOrigin, eLoaded, eCtx, eError,
                   eQueue, eRunning, callerEval, nSubmitted, lastStarted, calls, fsVars, hostVars>>

\* PluginEngine.get_locales / get_voices: `if not self._loaded: return []`
\* and run_in_executor
Enumerate(t) ==
    /\ pc[t] = "enum_check"
    /\ LET e == loc[t].eng IN
       IF eLoaded[e]
       THEN /\ Submit(e, t, loc[t].op)
            /\ Goto(t, "await")
            /\ UNCHANGED loc
       ELSE /\ Ret(t, EmptyList(loc[t].op))
            /\ UNCHANGED <<eQueue, nSubmitted>>
    /\ UNCHANGED <<engines, configs, lockOwner, nEngines, eConfig, eOrigin, eLoaded, eCtx, eError,
                   eRunning, callerEval, lastStarted, calls, fsVars, hostVars>>

\* PluginManager.is_loaded
CallIsLoaded(t, id) ==
    /\ Idle(t)
    /\ Begin(t, "is_loaded", id, NoConfig, "il_lookup")
    /\ UNCHANGED <<engines, configs, lockOwner, nEngines, eConfig, eOrigin, eLoaded, eCtx, eError,
                   eQueue, eRunning, callerEval, nSubmitted, lastStarted, fsVars, hostVars>>

\* is_loaded: `engine = self.get_engine(plugin_id)` (under the lock);
\* `... if engine else False`
IsLoadedLookup(t) ==
    /\ pc[t] = "il_lookup"
    /\ LockAvailable
    /\ IF engines[loc[t].id] = NoEngine
       THEN Ret(t, BoolRes(FALSE))
       ELSE /\ loc' = [loc EXCEPT ![t].eng = engines[loc[t].id]]
            /\ Goto(t, "il_read")
    /\ UNCHANGED <<engines, configs, lockOwner, nEngines, eConfig, eOrigin, eLoaded, eCtx, eError,
                   eQueue, eRunning, callerEval, nSubmitted, lastStarted, calls, fsVars, hostVars>>

\* is_loaded: `return engine.is_loaded()`
IsLoadedRead(t) ==
    /\ pc[t] = "il_read"
    /\ Ret(t, BoolRes(eLoaded[loc[t].eng]))
    /\ UNCHANGED <<engines, configs, lockOwner, nEngines, eConfig, eOrigin, eLoaded, eCtx, eError,
                   eQueue, eRunning, callerEval, nSubmitted, lastStarted, calls, fsVars, hostVars>>

\* ------------------------------------------------ sandboxed filesystem
\* Absolute paths are sequences of names; <<>> is "/".  A path argument of a
\* sandbox operation is [abs, parts], parts over names, "." and "..".
\* FileSystem._base_dir of plugin p1 (engine.py: data/plugins/<pluginId>)
BaseDir == <<"data", "p1">>

Rel(parts) == [abs |-> FALSE, parts |-> parts]
Abs(parts) == [abs |-> TRUE, parts |-> parts]
PathArgs ==
    { Rel(<<>>), Rel(<<".">>), Rel(<<"a">>), Rel(<<"a", "b">>), Rel(<<"c">>),
      Rel(<<"..">>), Rel(<<"..", "..", "etc", "passwd">>),
      Rel(<<"a", "..", "..", "p2">>), Rel(<<"..", "p1", "a">>),
      Abs(<<"etc", "passwd">>), Abs(<<"data", "p1", "a">>) }

\* The tree before the plugin runs: "dir", or a file with its content,
\* "orig" (not written through the sandbox) or "written".
InitTree ==
    [ q \in { <<>>, <<"data">>, <<"data", "p1">>, <<"data", "p2">>, <<"etc">>,
              <<"etc", "passwd">> } |->
        IF q = <<"etc", "passwd">> THEN "orig" ELSE "dir" ]

IsPrefix(a, b) == Len(a) <= Len(b) /\ SubSeq(b, 1, Len(a)) = a
Parent(q) == IF q = <<>> THEN <<>> ELSE SubSeq(q, 1, Len(q) - 1)
Kind(f, q) == IF q \in DOMAIN f THEN f[q] ELSE "none"
IsFileAt(f, q) == Kind(f, q) \in {"orig", "written"}
IsDirAt(f, q) == Kind(f, q) = "dir"
ExistsAt(f, q) == q \in DOMAIN f

\* Path.resolve(): "." dropped, ".." pops a component ("/.." is "/")
RECURSIVE Normalize(_, _)
Normalize(stack, parts) ==
    IF parts = <<>> THEN stack
    ELSE IF Head(parts) = "." THEN Normalize(stack, Tail(parts))
    ELSE IF Head(parts) = ".." THEN Normalize(Parent(stack), Tail(parts))
    ELSE Normalize(Append(stack, Head(parts)), Tail(parts))

\* (self._base_dir / path).resolve(): an absolute path replaces the base
Resolve(arg) == Normalize(<<>>, IF arg.abs THEN arg.parts ELSE BaseDir \o arg.parts)

\* target_path.relative_to(self._base_dir) does not raise
IsWithinMutant(target, base) == TRUE
IsWithin(target, base) == IsPrefix(base, target)

\* _safe_path: the resolved path, or ValueError (ok = FALSE)
_safe_path(arg) == [ok |-> IsWithin(Resolve(arg), BaseDir), path |-> Resolve(arg)]

Outcome(res, f, touched) == [result |-> res, fs |-> f, touched |-> touched]

Ancestors(q) == { SubSeq(q, 1, k) : k \in 0..Len(q) }

\* Path.mkdir(parents=True, exist_ok=True): fails when the path or one of
\* its ancestors is a file, else creates every missing directory
MkdirParentsOk(f, q) == \A a \in Ancestors(q) : ~IsFileAt(f, a)
MkdirParents(f, q) ==
    [ x \in DOMAIN f \cup Ancestors(q) |-> IF x \in DOMAIN f THEN f[x] ELSE "dir" ]

SetKind(f, q, k) == [ x \in DOMAIN f \cup {q} |-> IF x = q THEN k ELSE f[x] ]
RemoveTree(f, q) == [ x \in { y \in DOMAIN f : ~IsPrefix(q, y) } |-> f[x] ]
Rebase(x, from, to) == to \o SubSeq(x, Len(from) + 1, Len(x))
MoveTree(f, from, to) ==
    LET moved == { y \in DOMAIN f : IsPrefix(from, y) }
        kept == DOMAIN f \ moved
    IN [ x \in kept \cup { Rebase(y, from, to) : y \in moved } |->
           IF \E y \in moved : Rebase(y, from, to) = x
           THEN f[CHOOSE y \in moved : Rebase(y, from, to) = x]
           ELSE f[x] ]

\* FileSystem.exists / isFile
FsExists(f, a) ==
    LET sp == _safe_path(a) IN
    IF ~sp.ok THEN Outcome("False", f, {})
    ELSE Outcome(IF ExistsAt(f, sp.path) THEN "True" ELSE "False", f, {sp.path})

FsIsFile(f, a) ==
    LET sp == _safe_path(a) IN
    IF ~sp.ok THEN Outcome("False", f, {})
    ELSE Outcome(IF IsFileAt(f, sp.path) THEN "True" ELSE "False", f, {sp.path})

\* FileSystem.readText / readBytes / getFileSize: the value read is the
\* file's content
FsRead(f, a) ==
    LET sp == _safe_path(a) IN
    IF ~sp.ok THEN Outcome("ValueError", f, {})
    ELSE IF ~ExistsAt(f, sp.path) THEN Outcome("FileNotFoundError", f, {sp.path})
    ELSE IF ~IsFileAt(f, sp.path) THEN Outcome("IOError", f, {sp.path})
    ELSE Outcome(f[sp.path], f, {sp.path})

\* FileSystem.writeText / writeBytes
FsWrite(f, a) ==
    LET sp == _safe_path(a) IN
    IF ~sp.ok THEN Outcome("ValueError", f, {})
    ELSE IF ~MkdirParentsOk(f, Parent(sp.path))
         THEN Outcome("IOError", f, {Parent(sp.path)})
    ELSE LET g == MkdirParents(f, Parent(sp.path)) IN
         IF IsDirAt(g, sp.path) THEN Outcome("IOError", g, {Parent(sp.path), sp.path})
         ELSE Outcome("True", SetKind(g, sp.path, "written"), {Parent(sp.path), sp.path})

\* FileSystem.mkdir
FsMkdir(f, a) ==
    LET sp == _safe_path(a) IN
    IF ~sp.ok THEN Outcome("ValueError", f, {})
    ELSE IF IsDirAt(f, sp.path) THEN Outcome("True", f, {sp.path})
    ELSE IF IsFileAt(f, sp.path) \/ ~IsDirAt(f, Parent(sp.path))
         THEN Outcome("IOError", f, {sp.path})
    ELSE Outcome("True", SetKind(f, sp.path, "dir"), {sp.path})

\* FileSystem.mkdirs
FsMkdirs(f, a) ==
    LET sp == _safe_path(a) IN
    IF ~sp.ok THEN Outcome("ValueError", f, {})
    ELSE IF ~MkdirParentsOk(f, sp.path) THEN Outcome("IOError", f, {sp.path})
    ELSE Outcome("True", MkdirParents(f, sp.path), {sp.path})

\* FileSystem.delete: unlink a file, shutil.rmtree a directory
FsDelete(f, a) ==
    LET sp == _safe_path(a) IN
    IF ~sp.ok THEN Outcome("ValueError", f, {})
    ELSE IF ~ExistsAt(f, sp.path) THEN Outcome("False", f, {sp.path})
    ELSE Outcome("True", RemoveTree(f, sp.path), {sp.path})

\* FileSystem.copy: shutil.copy2 copies into a destination directory, and
\* raises when source and destination are the same file
FsCopy(f, a, b) ==
    LET src == _safe_path(a)
        dst == _safe_path(b)
    IN
    IF ~src.ok \/ ~dst.ok THEN Outcome("ValueError", f, {})
    ELSE IF ~ExistsAt(f, src.path) THEN Outcome("FileNotFoundError", f, {src.path})
    ELSE IF ~IsFileAt(f, src.path) THEN Outcome("IOError", f, {src.path})
    ELSE IF ~MkdirParentsOk(f, Parent(dst.path))
         THEN Outcome("IOError", f, {src.path, Parent(dst.path)})
    ELSE LET g == MkdirParents(f, Parent(dst.path))
             real == IF IsDirAt(g, dst.path)
                     THEN Append(dst.path, src.path[Len(src.path)]) ELSE dst.path
         IN IF real = src.path \/ IsDirAt(g, real)
            THEN Outcome("IOError", g, {src.path, Parent(dst.path), real})
            ELSE Outcome("True", SetKind(g, real, f[src.path]),
                         {src.path, Parent(dst.path), real})

\* FileSystem.move: shutil.move moves into a destination directory, refuses
\* an existing entry there and a directory moved into itself; os.rename
\* replaces an existing file by a file
FsMove(f, a, b) ==
    LET src == _safe_path(a)
        dst == _safe_path(b)
    IN
    IF ~src.ok \/ ~dst.ok THEN Outcome("ValueError", f, {})
    ELSE IF ~ExistsAt(f, src.path) THEN Outcome("FileNotFoundError", f, {src.path})
    ELSE IF ~MkdirParentsOk(f, Parent(dst.path))
         THEN Outcome("IOError", f, {src.path, Parent(dst.path)})
    ELSE LET g == MkdirParents(f, Parent(dst.path))
             into == IsDirAt(g, dst.path) /\ dst.path # src.path
             real == IF into /\ src.path # <<>>
                     THEN Append(dst.path, src.path[Len(src.path)]) ELSE dst.path
             touched == {src.path, Parent(dst.path), real}
         IN IF real = src.path
            THEN Outcome(IF into THEN "IOError" ELSE "True", g, touched)
            ELSE IF into /\ ExistsAt(g, real) THEN Outcome("IOError", g, touched)
            ELSE IF IsDirAt(g, src.path) /\ (IsPrefix(src.path, real) \/ ExistsAt(g, real))
                 THEN Outcome("IOError", g, touched)
            ELSE IF IsFileAt(g, src.path) /\ IsDirAt(g, real)
                 THEN Outcome("IOError", g, touched)
            ELSE Outcome("True", MoveTree(RemoveTree(g, real), src.path, real), touched)

FsOpNames == {"exists", "readText", "readBytes", "writeText", "writeBytes", "mkdir",
              "mkdirs", "delete", "copy", "move", "isFile", "getFileSize"}

\* One sandbox operation applied to the tree f
FsApply(op, f, a, b) ==
    CASE op \in {"exists"}                              -> FsExists(f, a)
      [] op \in {"isFile"}                              -> FsIsFile(f, a)
      [] op \in {"readText", "readBytes", "getFileSize"} -> FsRead(f, a)
      [] op \in {"writeText", "writeBytes"}             -> FsWrite(f, a)
      [] op = "mkdir"                                   -> FsMkdir(f, a)
      [] op = "mkdirs"                                  -> FsMkdirs(f, a)
      [] op = "delete"                                  -> FsDelete(f, a)
      [] op = "copy"                                    -> FsCopy(f, a, b)
      [] OTHER                                          -> FsMove(f, a, b)

\* What the guest sees (PluginEngine._js_fs_*): every exception becomes the
\* wrapper's failure value
_js_fs(op, result) ==
    IF result \in {"ValueError", "FileNotFoundError", "IOError"}
    THEN CASE op = "readText"  -> "''"
           [] op = "readBytes" -> "[]"
           [] op = "getFileSize" -> result      \* not exported to the guest
           [] OTHER -> "False"
    ELSE result

Escapes(arg) == ~IsPrefix(BaseDir, Resolve(arg))
TwoPaths(op) == op \in {"copy", "move"}

NoFsCall == [op |-> "none", a |-> Rel(<<>>), b |-> Rel(<<>>), escaped |-> FALSE,
             result |-> "none", guest |-> "none", changed |-> FALSE, touched |-> {}]

\* The plugin calls one sandbox operation.
FsCall(op, a, b) ==
    /\ fsOps < MaxFsOps
    /\ \E out \in {FsApply(op, fs, a, b)} :
         /\ fs' = out.fs
         /\ fsLast' = [op |-> op, a |-> a, b |-> b,
                       escaped |-> Escapes(a) \/ (TwoPaths(op) /\ Escapes(b)),
                       result |-> out.result, guest |-> _js_fs(op, out.result),
                       changed |-> out.fs # fs, touched |-> out.touched]
    /\ fsOps' = fsOps + 1
    /\ UNCHANGED <<engineVars, hostVars>>

FsOneArg == \E op \in FsOpNames \ {"copy", "move"}, a \in PathArgs : FsCall(op, a, a)
FsTwoArgs == \E op \in {"copy", "move"}, a \in PathArgs, b \in PathArgs : FsCall(op, a, b)

\* ------------------------------------------------------ symmetric ciphers
\* A string is a sequence of tokens; "/" is the separator of a transformation.
\* str.split('/')
RECURSIVE SplitAt(_, _, _)
SplitAt(s, cur, acc) ==
    IF s = <<>> THEN Append(acc, cur)
    ELSE IF Head(s) = "/" THEN SplitAt(Tail(s), <<>>, Append(acc, cur))
    ELSE SplitAt(Tail(s), Append(cur, Head(s)), acc)
Split(s) == SplitAt(s, <<>>, <<>>)

Range(s) == { s[i] : i \in 1..Len(s) }

\* str.upper()
UpperToken(tok) ==
    CASE tok = "aes" -> "AES"
      [] tok = "PKCS5Padding" -> "PKCS5PADDING"
      [] tok = "PKCS7Padding" -> "PKCS7PADDING"
      [] tok = "NoPadding" -> "NOPADDING"
      [] OTHER -> tok
Upper(part) == [i \in 1..Len(part) |-> UpperToken(part[i])]

\* SymmetricCrypto.ALGORITHM_BLOCK_SIZES
ALGORITHM_BLOCK_SIZES == [AES |-> 128, DES |-> 64]
Algorithms == { <<a>> : a \in DOMAIN ALGORITHM_BLOCK_SIZES }

\* key lengths algorithms.AES(key) accepts, and the ones the DES branch accepts
AesKeyLens == {16, 24, 32}
DesKeyLens == {8, 16, 24}

\* SymmetricCrypto.__init__: "ok", or "ValueError" when it raises.
\* iv is "None" or "bytes".
SymmetricCryptoInit(transformation, keyLen, iv) ==
    LET parts == Split(transformation) IN
    IF Len(parts) # 3 THEN "ValueError"
    ELSE LET algorithm_name == Upper(parts[1])
             mode_name == Upper(parts[2])
             padding_name == Upper(parts[3])
         IN IF algorithm_name \notin Algorithms THEN "ValueError"
            ELSE IF mode_name \notin {<<"ECB">>, <<"CBC">>} THEN "ValueError"
            ELSE IF padding_name \notin {<<"PKCS5PADDING">>, <<"PKCS7PADDING">>} THEN "ValueError"
            ELSE IF mode_name = <<"CBC">> /\ iv = "None" THEN "ValueError"
            ELSE IF algorithm_name = <<"AES">>
                 THEN IF keyLen \in AesKeyLens THEN "ok" ELSE "ValueError"
                 ELSE IF keyLen \in DesKeyLens THEN "ok" ELSE "ValueError"

\* The handle "crypto_<n>" is n; the empty string is NoHandle.
NoHandle == 0

\* _js_create_symmetric_crypto: the new counter, the new table and the
\* handle returned; `except Exception: return ""`.
\* ivJson is "null" or "bytes".
_js_create_symmetric_crypto(counter, table, transformation, keyLen, ivJson) ==
    LET iv_bytes == IF ivJson # "null" THEN "bytes" ELSE "None" IN
    IF SymmetricCryptoInit(transformation, keyLen, iv_bytes) = "ok"
    THEN [counter |-> counter + 1, table |-> table \cup {counter + 1}, id |-> counter + 1]
    ELSE [counter |-> counter, table |-> table, id |-> NoHandle]

\* ttsrv.createSymmetricCrypto in the guest: `return { encryptBase64: ...,
\* decrypt: ... }` whatever handle the host gave back.
JsCipherFor(cryptoId) == "object"

\* Does guest code of engine e run (on its worker, or in an eval of load)?
GuestRuns(e) == eRunning[e] # {} \/ callerEval[e] # {}

\* Guest code calls ttsrv.createSymmetricCrypto(transformation, key, iv);
\* iv is "undefined" or "bytes".
CreateSymmetricCrypto(e, transformation, keyLen, iv) ==
    /\ GuestRuns(e)
    /\ cryptoLast.n < MaxCrypto
    /\ LET ivJson == IF iv = "bytes" THEN "bytes" ELSE "null"
           out == _js_create_symmetric_crypto(eCryptoCounter[e], eCrypto[e],
                                              transformation, keyLen, ivJson)
       IN /\ eCryptoCounter' = [eCryptoCounter EXCEPT ![e] = out.counter]
          /\ eCrypto' = [eCrypto EXCEPT ![e] = out.table]
          /\ cryptoLast' = [n |-> cryptoLast.n + 1, engine |-> e, transformation |-> transformation,
                            keyLen |-> keyLen, iv |-> iv, handle |-> out.id,
                            received |-> JsCipherFor(out.id),
                            created |-> out.table # eCrypto[e]]
    /\ UNCHANGED <<engineVars, fsVars, eExecutor, defVars, userVars, varLast, varObjs, codecLast, mgr, audio, rhino>>

\* The transformations, keys and IVs plugins pass.
Transformations ==
    { <<"AES", "/", "ECB", "/", "PKCS5Padding">>,
      <<"AES", "/", "CBC", "/", "PKCS7Padding">>,
      <<"aes", "/", "CBC", "/", "PKCS5Padding">>,
      <<"DES", "/", "ECB", "/", "PKCS5Padding">>,
      <<"DES", "/", "CBC", "/", "PKCS5Padding">>,
      <<"RC4", "/", "ECB", "/", "PKCS5Padding">>,
      <<"AES", "/", "GCM", "/", "PKCS5Padding">>,
      <<"AES", "/", "ECB", "/", "NoPadding">>,
      <<"AES">>,
      <<"AES", "/", "CBC">>,
      <<"AES", "/", "CBC", "/", "PKCS5Padding", "/", "x">> }
KeyLens == {8, 16}
GuestIvs == {"undefined", "bytes"}
CryptoArgs ==
    { a \in [transformation : Transformations, keyLen : KeyLens, iv : GuestIvs] :
        \/ a.keyLen = 16 /\ a.iv = "undefined"
        \/ a.keyLen = 16 /\ a.iv = "bytes" /\ "CBC" \in Range(a.transformation)
        \/ a.keyLen = 8 /\ a.iv = "undefined" /\ "ECB" \in Range(a.transformation) }

CreateAnyCrypto ==
    \E e \in Engines, a \in CryptoArgs :
        CreateSymmetricCrypto(e, a.transformation, a.keyLen, a.iv)

\* The same call with one well-formed and one ill-formed transformation.
CreateSampleCrypto ==
    \E e \in Engines, tr \in {<<"AES", "/", "ECB", "/", "PKCS5Padding">>,
                               <<"AES", "/", "GCM", "/", "NoPadding">>} :
        CreateSymmetricCrypto(e, tr, 16, "undefined")

\* No caller thread and no work item refers to engine e.
Unreferenced(e) ==
    /\ \A t \in Callers : loc[t].eng # e /\ loc[t].old # e
    /\ eQueue[e] = <<>> /\ eRunning[e] = {}

\* PluginEngine.__del__ when its creator has dropped the object:
\* `if self._loaded: self.unload()`, `self._executor.shutdown(wait=False)`;
\* the handle table goes with the object.
Del(e) ==
    /\ eOrigin[e] = "direct"
    /\ Unreferenced(e)
    /\ eOrigin' = [eOrigin EXCEPT ![e] = "collected"]
    /\ eCtx' = [eCtx EXCEPT ![e] = IF eLoaded[e] THEN CleanupCtx(@) ELSE @]
    /\ eLoaded' = [eLoaded EXCEPT ![e] = FALSE]
    /\ eExecutor' = [eExecutor EXCEPT ![e] = "shutdown"]
    /\ eCrypto' = [eCrypto EXCEPT ![e] = {}]
    /\ UNCHANGED <<engines, configs, lockOwner, nEngines, eConfig, eError,
                   eQueue, eRunning, callerEval, nSubmitted, lastStarted, pc, loc, calls,
                   fsVars, eCryptoCounter, cryptoLast, defVars, userVars, varLast, varObjs,
                   codecLast, mgr, audio, rhino>>

\* ------------------------------------------------- byte arrays and base64
\* `b & 0xFF` on a Python int (two's complement of unbounded width): the
\* eight low bits of b.
AndFFMutant(b) == IF b < 0 THEN 0 - b ELSE b
AndFF(b) ==
    LET Bit(i) == (b \div (2 ^ i)) % 2
    IN Bit(0) + 2 * Bit(1) + 4 * Bit(2) + 8 * Bit(3)
       + 16 * Bit(4) + 32 * Bit(5) + 64 * Bit(6) + 128 * Bit(7)

\* _convert_js_bytes: `unsigned_bytes.append(b & 0xFF)` for each element
\* (the elements are integers)
_convert_js_bytes(js_bytes) == [i \in 1..Len(js_bytes) |-> AndFF(js_bytes[i])]

\* The base64 alphabet; "=" pads.
Alphabet ==
    << "A", "B", "C", "D", "E", "F", "G", "H", "I", "J", "K", "L", "M", "N", "O", "P",
       "Q", "R", "S", "T", "U", "V", "W", "X", "Y", "Z", "a", "b", "c", "d", "e", "f",
       "g", "h", "i", "j", "k", "l", "m", "n", "o", "p", "q", "r", "s", "t", "u", "v",
       "w", "x", "y", "z", "0", "1", "2", "3", "4", "5", "6", "7", "8", "9", "+", "/" >>
CharOf(n) == Alphabet[n + 1]
IndexOf(c) == (CHOOSE i \in 1..Len(Alphabet) : Alphabet[i] = c) - 1

\* base64.b64encode: three bytes give four characters; one or two bytes
\* left over give two or three characters and padding.
RECURSIVE b64encode(_)
b64encode(bs) ==
    IF bs = <<>> THEN <<>>
    ELSE LET c1 == CharOf(bs[1] \div 4) IN
         IF Len(bs) = 1
         THEN <<c1, CharOf((bs[1] % 4) * 16), "=", "=">>
         ELSE LET c2 == CharOf((bs[1] % 4) * 16 + bs[2] \div 16) IN
              IF Len(bs) = 2
              THEN <<c1, c2, CharOf((bs[2] % 16) * 4), "=">>
              ELSE <<c1, c2, CharOf((bs[2] % 16) * 4 + bs[3] \div 64), CharOf(bs[3] % 64)>>
                   \o b64encode(SubSeq(bs, 4, Len(bs)))

\* base64.b64decode of a text whose length is a multiple of four: four
\* characters give three bytes, fewer where the group ends in padding.
RECURSIVE b64decodeGroups(_)
b64decodeGroups(text) ==
    IF text = <<>> THEN <<>>
    ELSE LET s1 == IndexOf(text[1])
             s2 == IndexOf(text[2])
             b1 == s1 * 4 + s2 \div 16
         IN IF text[3] = "=" THEN <<b1>>
            ELSE LET s3 == IndexOf(text[3])
                     b2 == (s2 % 16) * 16 + s3 \div 4
                 IN IF text[4] = "=" THEN <<b1, b2>>
                    ELSE <<b1, b2, (s3 % 4) * 64 + IndexOf(text[4])>>
                         \o b64decodeGroups(SubSeq(text, 5, Len(text)))

\* base64.b64decode: "Error" (binascii.Error, incorrect padding) or the bytes
b64decodeMutant(text) ==
    IF Len(text) % 4 # 0 THEN "Error"
    ELSE SelectSeq(b64decodeGroups(text), LAMBDA b : b # 0)
b64decode(text) ==
    IF Len(text) % 4 # 0 THEN "Error" ELSE b64decodeGroups(text)

\* _js_array_to_base64: the parsed JSON array, _convert_js_bytes, b64encode
_js_array_to_base64(byte_list) == b64encode(_convert_js_bytes(byte_list))

\* _js_base64_to_byte_array: `if not base64_str: return '[]'`, b64decode,
\* the list of the bytes; `except Exception: return '[]'`
_js_base64_to_byte_array(base64_str) ==
    IF base64_str = <<>> THEN <<>>
    ELSE IF Len(base64_str) % 4 # 0 THEN <<>>
    ELSE b64decode(base64_str)

\* The byte arrays guest code hands to the host: signed and unsigned values.
ByteVals == {0 - 128, 0 - 1, 0, 127, 128, 255}
JsByteArrays == UNION { [1..n -> ByteVals] : n \in 0..MaxLen }

\* The host converts the array it was handed.
ConvertJsBytes ==
    /\ codecLast.op = "none"
    /\ codecLast' = [codecLast EXCEPT !.op = "convert",
                                      !.output = _convert_js_bytes(codecLast.input)]
    /\ UNCHANGED <<engineVars, fsVars, eExecutor, eCrypto, eCryptoCounter, cryptoLast,
                   defVars, userVars, varLast, varObjs, mgr, audio, rhino>>

\* ttsrv.arrayToBase64 / __py_arrayToBase64
ArrayToBase64 ==
    /\ codecLast.op = "none"
    /\ codecLast' = [codecLast EXCEPT !.op = "encode",
                                      !.text = _js_array_to_base64(codecLast.input)]
    /\ UNCHANGED <<engineVars, fsVars, eExecutor, eCrypto, eCryptoCounter, cryptoLast,
                   defVars, userVars, varLast, varObjs, mgr, audio, rhino>>

\* ttsrv.base64ToByteArray / __py_base64ToByteArray on the text the last
\* encoding gave
Base64ToByteArray ==
    /\ codecLast.op = "encode"
    /\ codecLast' = [codecLast EXCEPT !.op = "decode",
                                      !.output = _js_base64_to_byte_array(codecLast.text)]
    /\ UNCHANGED <<engineVars, fsVars, eExecutor, eCrypto, eCryptoCounter, cryptoLast,
                   defVars, userVars, varLast, varObjs, mgr, audio, rhino>>

\* -------------------------------------------------------- the variable store
\* The empty dict
EmptyVars == [k \in {} |-> "None"]

\* Variable names and values (None is a value like any other).
Keys == {"k1", "k2"}
Vals == {"None", "a", "b"}
VarMaps == UNION { [d -> Vals] : d \in SUBSET Keys }

\* PluginConfig.get_merged_vars: `merged = dict(defVars); merged.update(userVars)`
get_merged_vars(defs, user) ==
    [k \in DOMAIN defs \cup DOMAIN user |-> IF k \in DOMAIN user THEN user[k] ELSE defs[k]]

\* TtsrvRuntime.setVar: `self._user_vars[key] = value`
setVar(user, key, value) ==
    [k \in DOMAIN user \cup {key} |-> IF k = key THEN value ELSE user[k]]

\* TtsrvRuntime.getVar
getVarMutant(user, defs, key, default) ==
    IF key \in DOMAIN defs THEN defs[key]
    ELSE IF key \in DOMAIN user THEN user[key]
    ELSE default
getVar(user, defs, key, default) ==
    IF key \in DOMAIN user THEN user[key]
    ELSE IF key \in DOMAIN defs THEN defs[key]
    ELSE default

\* TtsrvRuntime.removeVar: the user variables left, and the value returned
removeVar(user, key) ==
    IF key \in DOMAIN user
    THEN [vars |-> [k \in DOMAIN user \ {key} |-> user[k]], result |-> "True"]
    ELSE [vars |-> user, result |-> "False"]

\* TtsrvRuntime.__init__: `self._user_vars = user_vars.copy() if user_vars
\* else {}`: is the store the very dict object of the definition?
InitShares(user_vars) == FALSE

\* getUserVars: `self._user_vars.copy()`: is the result the store's object?
SnapshotSharesMutant(user_vars) == TRUE
SnapshotShares(user_vars) == FALSE

\* The dict objects when TtsrvRuntime(plugin_id, user_vars, def_vars) is built
\* (history: cfg0 = the definition's userVars then, snapAt = the last
\* snapshot as it was returned)
NewVarObjs(user_vars) ==
    [cfg |-> user_vars, cfgShared |-> InitShares(user_vars), cfg0 |-> user_vars,
     snap |-> EmptyVars, snapShared |-> FALSE, snapAt |-> EmptyVars, hasSnap |-> FALSE]

\* A write to TtsrvRuntime._user_vars shows in every object that is that dict.
Mutated(objs, user) ==
    [objs EXCEPT !.cfg = IF objs.cfgShared THEN user ELSE @,
                 !.snap = IF objs.snapShared THEN user ELSE @]

VarCall(op, key, arg, result) ==
    /\ varLast.n < MaxVarOps
    /\ varLast' = [n |-> varLast.n + 1, op |-> op, key |-> key, arg |-> arg, result |-> result,
                   userBefore |-> userVars, defBefore |-> defVars]

SetVar(key, value) ==
    /\ VarCall("setVar", key, value, "None")
    /\ userVars' = setVar(userVars, key, value)
    /\ varObjs' = Mutated(varObjs, setVar(userVars, key, value))
    /\ UNCHANGED <<engineVars, fsVars, eExecutor, eCrypto, eCryptoCounter, cryptoLast,
                   defVars, codecLast, mgr, audio, rhino>>

GetVar(key, default) ==
    /\ VarCall("getVar", key, default, getVar(userVars, defVars, key, default))
    /\ UNCHANGED <<engineVars, fsVars, eExecutor, eCrypto, eCryptoCounter, cryptoLast,
                   defVars, userVars, varObjs, codecLast, mgr, audio, rhino>>

\* PluginEngine.get_user_vars -> TtsrvRuntime.getUserVars:
\* `return self._user_vars.copy()`
GetUserVars ==
    /\ VarCall("getUserVars", "none", "None", "None")
    /\ varObjs' = [varObjs EXCEPT !.snap = userVars,
                                  !.snapShared = SnapshotShares(userVars),
                                  !.snapAt = userVars,
                                  !.hasSnap = TRUE]
    /\ UNCHANGED <<engineVars, fsVars, eExecutor, eCrypto, eCryptoCounter, cryptoLast,
                   defVars, userVars, codecLast, mgr, audio, rhino>>

RemoveVar(key) ==
    /\ VarCall("removeVar", key, "None", removeVar(userVars, key).result)
    /\ userVars' = removeVar(userVars, key).vars
    /\ varObjs' = Mutated(varObjs, removeVar(userVars, key).vars)
    /\ UNCHANGED <<engineVars, fsVars, eExecutor, eCrypto, eCryptoCounter, cryptoLast,
                   defVars, codecLast, mgr, audio, rhino>>

\* ------------------------------------------------------ audio introspection
DEFAULT_SAMPLE_RATE == 22050

MAGIC_RIFF == <<82, 73, 70, 70>>
MAGIC_WAVE == <<87, 65, 86, 69>>
MAGIC_OGG == <<79, 103, 103, 83>>
MAGIC_FTYP == <<102, 116, 121, 112>>
MAGIC_FLAC == <<102, 76, 97, 67>>
FmtId == <<102, 109, 116, 32>>                          \* b'fmt '
ID3 == <<73, 68, 51>>                                   \* b'ID3'
VorbisId == <<1, 118, 111, 114, 98, 105, 115>>          \* b'\x01vorbis'

\* version -> sample-rate index -> rate (index i is element i + 1)
MP3_SAMPLE_RATES ==
    (3 :> <<44100, 48000, 32000, 0>>) @@ (2 :> <<22050, 24000, 16000, 0>>) @@
    (0 :> <<11025, 12000, 8000, 0>>)

Least(a, b) == IF a < b THEN a ELSE b

\* data[a:b]
Slice(data, a, b) == SubSeq(data, a + 1, Least(b, Len(data)))

\* struct.unpack('<I', b)[0]; struct.error when b is not four bytes long.
\* The values from 2^30 on are all given as 2^30: each is above every buffer
\* length and every plausible rate, which is all they are compared with, and
\* an offset advanced by one stays within the integers of the checker.
StructError == 0 - 1
unpack_I(b) ==
    IF Len(b) # 4 THEN StructError
    ELSE IF b[4] >= 64 THEN 1073741824
    ELSE b[1] + 256 * b[2] + 65536 * b[3] + 16777216 * b[4]

Plausible(rate) == 1000 <= rate /\ rate <= 192000

_isMp3Frame(data) ==
    /\ Len(data) >= 4
    /\ data[1] = 255 /\ data[2] >= 224
    /\ (data[2] \div 8) % 4 # 1
    /\ (data[2] \div 2) % 4 # 0

detectAudioFormat(data) ==
    IF Len(data) < 4 THEN "unknown"
    ELSE IF Len(data) >= 12 /\ Slice(data, 0, 4) = MAGIC_RIFF
                            /\ Slice(data, 8, 12) = MAGIC_WAVE THEN "wav"
    ELSE IF Slice(data, 0, 4) = MAGIC_OGG THEN "ogg"
    ELSE IF Slice(data, 0, 4) = MAGIC_FLAC THEN "flac"
    ELSE IF Len(data) >= 8 /\ Slice(data, 4, 8) = MAGIC_FTYP THEN "m4a"
    ELSE IF _isMp3Frame(data) THEN "mp3"
    ELSE IF Slice(data, 0, 3) = ID3 THEN "mp3"
    ELSE "unknown"

\* data.find(pat) from position i on; -1 when absent
RECURSIVE Find(_, _, _)
Find(data, pat, i) ==
    IF i + Len(pat) > Len(data) THEN 0 - 1
    ELSE IF Slice(data, i, i + Len(pat)) = pat THEN i
    ELSE Find(data, pat, i + 1)

_getOggSampleRate(data) ==
    IF Len(data) < 100 THEN DEFAULT_SAMPLE_RATE
    ELSE LET vorbis_pos == Find(Slice(data, 0, 200), VorbisId, 0)
             sample_rate == unpack_I(Slice(data, vorbis_pos + 12, vorbis_pos + 16))
         IN  IF vorbis_pos >= 0 /\ vorbis_pos + 16 <= Len(data) /\ Plausible(sample_rate)
             THEN sample_rate
             ELSE DEFAULT_SAMPLE_RATE

_getFlacSampleRate(data) ==
    IF Len(data) < 22 THEN DEFAULT_SAMPLE_RATE
    ELSE IF Slice(data, 0, 4) # MAGIC_FLAC THEN DEFAULT_SAMPLE_RATE
    ELSE IF data[5] % 128 # 0 THEN DEFAULT_SAMPLE_RATE
    ELSE LET sample_rate == data[19] * 4096 + data[20] * 16 + (data[21] \div 16)
         IN  IF Plausible(sample_rate) THEN sample_rate ELSE DEFAULT_SAMPLE_RATE

NoAudio == [data |-> <<>>, format |-> "", at |-> "idle", offset |-> 0, limit |-> 0,
            walked |-> FALSE, result |-> 0]

Done(a, rate) == [a EXCEPT !.at = "done", !.result = rate]

\* _getWavSampleRate up to its loop
WavEnter(a) ==
    IF Len(a.data) < 28 THEN Done(a, DEFAULT_SAMPLE_RATE)
    ELSE IF Slice(a.data, 0, 4) # MAGIC_RIFF \/ Slice(a.data, 8, 12) # MAGIC_WAVE
         THEN Done(a, DEFAULT_SAMPLE_RATE)
    ELSE [a EXCEPT !.at = "wav", !.offset = 12]

\* _getMp3SampleRate up to its loop: an ID3v2 tag is skipped by its
\* synchsafe size
Mp3Enter(a) ==
    LET data == a.data
        offset == IF Len(data) >= 10 /\ Slice(data, 0, 3) = ID3
                  THEN 10 + (data[7] % 128) * 2097152 + (data[8] % 128) * 16384
                          + (data[9] % 128) * 128 + (data[10] % 128)
                  ELSE 0
    IN  [a EXCEPT !.at = "mp3", !.offset = offset,
                  !.limit = Least(Len(data), offset + 8192)]

\* getAudioSampleRate: the empty buffer, the format, the format's parser
GetAudioSampleRate ==
    /\ audio.at = "call"
    /\ audio' = IF audio.data = <<>> THEN Done(audio, DEFAULT_SAMPLE_RATE)
                ELSE LET f == detectAudioFormat(audio.data)
                         a == [audio EXCEPT !.format = f]
                     IN  CASE f = "wav" -> WavEnter(a)
                           [] f = "mp3" -> Mp3Enter(a)
                           [] f = "ogg" -> Done(a, _getOggSampleRate(a.data))
                           [] f = "flac" -> Done(a, _getFlacSampleRate(a.data))
                           [] OTHER -> Done(a, DEFAULT_SAMPLE_RATE)
    /\ UNCHANGED <<engineVarsButPc, pc, loc, calls, fsVars, hostVarsButAudio>>

PadMutant(chunk_size) == 0
Pad(chunk_size) == IF chunk_size % 2 # 0 THEN 1 ELSE 0

NextChunkMutant(offset, chunk_size) == offset + chunk_size + Pad(chunk_size)
NextChunk(offset, chunk_size) == offset + 8 + chunk_size + Pad(chunk_size)

\* One iteration of the sub-chunk walk of _getWavSampleRate. A struct.error
\* on a cut-off rate field is caught by getAudioSampleRate, which returns the
\* default.
WavStep ==
    /\ audio.at = "wav"
    /\ LET data == audio.data
           offset == audio.offset
           chunk_id == Slice(data, offset, offset + 4)
           chunk_size == unpack_I(Slice(data, offset + 4, offset + 8))
           sample_rate == unpack_I(Slice(data, offset + 12, offset + 16))
       IN  audio' =
             IF offset + 8 <= Len(data)
             THEN IF chunk_id = FmtId
                  THEN IF offset + 12 <= Len(data)
                       THEN IF sample_rate = StructError
                            THEN Done(audio, DEFAULT_SAMPLE_RATE)
                            ELSE IF Plausible(sample_rate) THEN Done(audio, sample_rate)
                            ELSE Done(audio, DEFAULT_SAMPLE_RATE)
                       ELSE Done(audio, DEFAULT_SAMPLE_RATE)
                  ELSE [audio EXCEPT !.offset = NextChunk(offset, chunk_size),
                                     !.walked = TRUE]
             ELSE Done(audio, DEFAULT_SAMPLE_RATE)
    /\ UNCHANGED <<engineVarsButPc, pc, loc, calls, fsVars, hostVarsButAudio>>

\* One iteration of the frame-sync scan of _getMp3SampleRate
Mp3Step ==
    /\ audio.at = "mp3"
    /\ LET data == audio.data
           offset == audio.offset
           on == [audio EXCEPT !.offset = offset + 1, !.walked = TRUE]
       IN  audio' =
             IF offset + 4 <= audio.limit
             THEN IF data[offset + 1] = 255 /\ data[offset + 2] >= 224
                  THEN LET version == (data[offset + 2] \div 8) % 4
                           layer == (data[offset + 2] \div 2) % 4
                           sample_rate_index == (data[offset + 3] \div 4) % 4
                       IN  IF version = 1 \/ layer = 0 THEN on
                           ELSE IF version \in DOMAIN MP3_SAMPLE_RATES
                                   /\ MP3_SAMPLE_RATES[version][sample_rate_index + 1] > 0
                                THEN Done(audio, MP3_SAMPLE_RATES[version][sample_rate_index + 1])
                                ELSE on
                  ELSE on
             ELSE Done(audio, DEFAULT_SAMPLE_RATE)
    /\ UNCHANGED <<engineVarsButPc, pc, loc, calls, fsVars, hostVarsButAudio>>

\* The buffers a call is made with
Zeros(n) == [i \in 1..n |-> 0]
LE32Bytes(n) == <<n % 256, (n \div 256) % 256, (n \div 65536) % 256, (n \div 16777216) % 256>>
Cut(b, n) == SubSeq(b, 1, IF Len(b) > n THEN Len(b) - n ELSE 0)

ListId == <<76, 73, 83, 84>>                            \* b'LIST'
Chunk(id, size, padded) ==
    id \o LE32Bytes(size) \o Zeros(size + IF padded THEN size % 2 ELSE 0)
FmtChunk(rate) == FmtId \o LE32Bytes(16) \o <<1, 0, 1, 0>> \o LE32Bytes(rate) \o Zeros(8)

RECURSIVE ChunkSeqs(_)
ChunkSeqs(n) ==
    IF n = 0 THEN {<<>>}
    ELSE ChunkSeqs(n - 1) \cup
         {Chunk(ListId, size, padded) \o rest :
            size \in 0..MaxChunkSize, padded \in BOOLEAN, rest \in ChunkSeqs(n - 1)}

SampleRates == {44100, 8000, 500, 200000}
Cuts == {0, 8, 10, 12, 14, 30, 200}

WavBuffers ==
    {Cut(MAGIC_RIFF \o Zeros(4) \o MAGIC_WAVE \o pre \o FmtChunk(rate), cut) :
        pre \in ChunkSeqs(MaxChunks), rate \in SampleRates, cut \in Cuts}

Synchsafe(size) ==
    <<(size \div 2097152) % 128, (size \div 16384) % 128, (size \div 128) % 128, size % 128>>
Id3Tags == {<<>>} \cup {ID3 \o <<3, 0, 0>> \o Synchsafe(size) \o Zeros(fill) :
                            size \in {0, 2, 300}, fill \in {0, 2}}
Frame(version, layer, index) == <<255, 224 + version * 8 + layer * 2, index * 4, 0>>

Mp3Buffers ==
    {Cut(tag \o Zeros(junk) \o Frame(version, layer, index) \o Frame(3, 1, 1), cut) :
        tag \in Id3Tags, junk \in 0..MaxJunk, version \in 0..3, layer \in 0..1,
        index \in {0, 3}, cut \in {0, 5}}

OggBuffers ==
    {Cut(MAGIC_OGG \o Zeros(24) \o VorbisId \o Zeros(5) \o LE32Bytes(rate) \o Zeros(60), cut) :
        rate \in SampleRates, cut \in {0, 62, 80}}

FlacBuffers ==
    {Cut(MAGIC_FLAC \o <<type, 0, 0, 34>> \o Zeros(10) \o hi \o Zeros(3), cut) :
        type \in {0, 1, 128}, hi \in {<<10, 196, 64>>, <<0, 0, 0>>}, cut \in {0, 3}}

AudioBuffers ==
    WavBuffers \cup Mp3Buffers \cup OggBuffers \cup FlacBuffers
        \cup {Zeros(4) \o MAGIC_FTYP, Zeros(6)}

\* ------------------------------------------------------ the Rhino compat layer
\* A source is a sequence of tokens: the words, brackets and line ends that
\* the patterns tell apart, and one token for each construct that a pattern
\* matches as a whole.
\*   "stmt"            text without any legacy construct, such as `var x = 1`
\*   "nl" ";" "(" ")"  a line end, a semicolon, the brackets of an import
\*   "arg"             a package or class name, such as java.io
\*   "importPackage" "importClass"   the two words
\*   "JavaType"        Java.type("java.lang.String")
\*   "JavaString"      new java.lang.String(bytes, "UTF-8")
\*   "getBytesCharset" .getBytes("UTF-8")
\*   "getBytes"        .getBytes()
\*   "Packages"        Packages.java.io
\* and in rewritten text
\*   "cmtPackage" "cmtClass"   the comments `// [..] importPackage`, `// [..] importClass`
\*   "native"          what a type lookup, a string construction or a
\*                     getBytes(charset) is rewritten to
\*   "placeholder"     ({/* Packages.java.io */})
\*   "shim"            the shim block
Rest(code, i) == SubSeq(code, i, Len(code))

\* \s* from position i on: the position after the white space
RECURSIVE SkipSpace(_, _)
SkipSpace(code, i) ==
    IF i <= Len(code) /\ code[i] = "nl" THEN SkipSpace(code, i + 1) ELSE i

\* the position of the first ")" from i on, 0 without one
RECURSIVE FirstClose(_, _)
FirstClose(code, i) ==
    IF i > Len(code) THEN 0
    ELSE IF code[i] = ")" THEN i
    ELSE FirstClose(code, i + 1)

\* IMPORT_PACKAGE_PATTERN / IMPORT_CLASS_PATTERN at the head of `code`:
\* word \s* ( \s* [^)]+ \s* ) \s* ;?  -- the length of the match, 0 for none
ImportMatch(code, word) ==
    IF code = <<>> \/ code[1] # word THEN 0
    ELSE LET open == SkipSpace(code, 2)
             close == FirstClose(code, open + 1)
             after == SkipSpace(code, close + 1)
         IN  IF open > Len(code) \/ code[open] # "(" THEN 0
             ELSE IF close <= open + 1 THEN 0
             ELSE IF after <= Len(code) /\ code[after] = ";" THEN after
             ELSE after - 1

\* pattern.sub(comment, code) for one of the import patterns
RECURSIVE ImportSub(_, _, _)
ImportSub(code, word, comment) ==
    IF code = <<>> THEN <<>>
    ELSE LET m == ImportMatch(code, word)
         IN  IF m > 0 THEN <<comment>> \o ImportSub(Rest(code, m + 1), word, comment)
             ELSE <<code[1]>> \o ImportSub(Rest(code, 2), word, comment)

\* pattern.search(code) for one of the import patterns
ImportSearch(code, word) == \E i \in 1..Len(code) : ImportMatch(Rest(code, i), word) > 0

_remove_import_package(code) == ImportSub(code, "importPackage", "cmtPackage")
_remove_import_class(code) == ImportSub(code, "importClass", "cmtClass")

\* pattern.sub for a pattern that matches the construct `from`
TokenSub(code, from, to) == [i \in 1..Len(code) |-> IF code[i] = from THEN to ELSE code[i]]
Has(code, tokens) == \E i \in 1..Len(code) : code[i] \in tokens

_convert_java_type(code) == TokenSub(code, "JavaType", "native")
_convert_java_string_new(code) == TokenSub(code, "JavaString", "native")
_convert_get_bytes(code) == TokenSub(code, "getBytesCharset", "native")
_remove_packages_reference(code) == TokenSub(code, "Packages", "placeholder")

\* 'Java.' in code, 'importPackage' in code, ... : the tokens whose text holds
\* the substring
_add_compatibility_shims(code) ==
    LET needs_shim ==
            \/ Has(code, {"JavaType"})
            \/ Has(code, {"importPackage", "cmtPackage"})
            \/ Has(code, {"importClass", "cmtClass"})
            \/ Has(code, {"Packages", "placeholder"})
            \/ Has(code, {"getBytes", "getBytesCharset"})
    IN  IF ~needs_shim THEN code ELSE <<"shim">> \o code

preprocess_code(code) ==
    IF code = <<>> THEN code
    ELSE _add_compatibility_shims(_remove_packages_reference(_convert_get_bytes(
            _convert_java_string_new(_convert_java_type(
                _remove_import_class(_remove_import_package(code)))))))

remove_java_imports(code) == _remove_import_class(_remove_import_package(code))

detect_rhino_features(code) ==
    (IF ImportSearch(code, "importPackage") THEN <<"importPackage">> ELSE <<>>) \o
    (IF ImportSearch(code, "importClass") THEN <<"importClass">> ELSE <<>>) \o
    (IF Has(code, {"JavaType"}) THEN <<"Java.type">> ELSE <<>>) \o
    (IF Has(code, {"JavaString"}) THEN <<"new java.lang.String">> ELSE <<>>) \o
    (IF Has(code, {"getBytesCharset"}) THEN <<"String.getBytes">> ELSE <<>>) \o
    (IF Has(code, {"Packages"}) THEN <<"Packages">> ELSE <<>>)

NoRhino == [code |-> <<>>, did |-> {}, output |-> <<>>, stripped |-> <<>>, features |-> <<>>]

PreprocessCode ==
    /\ "preprocess" \notin rhino.did
    /\ rhino' = [rhino EXCEPT !.did = @ \cup {"preprocess"},
                              !.output = preprocess_code(rhino.code)]
    /\ UNCHANGED <<engineVarsButPc, pc, loc, calls, fsVars, hostVarsButRhino>>

RemoveJavaImports ==
    /\ "strip" \notin rhino.did
    /\ rhino' = [rhino EXCEPT !.did = @ \cup {"strip"},
                              !.stripped = remove_java_imports(rhino.code)]
    /\ UNCHANGED <<engineVarsButPc, pc, loc, calls, fsVars, hostVarsButRhino>>

DetectRhinoFeatures ==
    /\ "detect" \notin rhino.did
    /\ rhino' = [rhino EXCEPT !.did = @ \cup {"detect"},
                              !.features = detect_rhino_features(rhino.code)]
    /\ UNCHANGED <<engineVarsButPc, pc, loc, calls, fsVars, hostVarsButRhino>>

\* The pieces sources are put together from
Pieces ==
    {<<"stmt">>, <<"nl">>, <<";">>,
     <<"importPackage", "(", "arg", ")">>, <<"importPackage", "(", "nl", "arg", ")">>,
     <<"importClass", "(", "arg", ")">>, <<"importPackage">>,
     <<"JavaType">>, <<"JavaString">>, <<"getBytesCharset">>, <<"getBytes">>,
     <<"Packages">>}

RECURSIVE Sources(_)
Sources(n) ==
    IF n = 0 THEN {<<>>}
    ELSE Sources(n - 1) \cup {piece \o rest : piece \in Pieces, rest \in Sources(n - 1)}

\* ------------------------------------------------ the registry singleton
\* PluginManager() / get_plugin_manager()
CallConstruct(t) ==
    /\ Idle(t)
    /\ Begin(t, "construct", "", NoConfig, "new_check")
    /\ UNCHANGED <<engineVarsButPc, fsVars, hostVars>>

\* __new__: `if cls._instance is None:` outside the lock
NewCheck(t) ==
    /\ pc[t] = "new_check"
    /\ Goto(t, IF mgr.instance = 0 THEN "new_lock" ELSE "init_check")
    /\ UNCHANGED <<engineVarsButPc, loc, calls, fsVars, hostVars>>

\* __new__: `with cls._lock:`
NewLock(t) ==
    /\ pc[t] = "new_lock"
    /\ mgr.clsLock = NoThread
    /\ mgr' = [mgr EXCEPT !.clsLock = t]
    /\ Goto(t, "new_make")
    /\ UNCHANGED <<engineVarsButPc, loc, calls, fsVars, hostVarsButMgr>>

\* __new__ under the lock: `if cls._instance is None: cls._instance =
\* super().__new__(cls)`; the lock is released
SecondCheckMutant(instance) == TRUE
SecondCheck(instance) == instance = 0

NewMake(t) ==
    /\ pc[t] = "new_make"
    /\ mgr' = IF SecondCheck(mgr.instance)
              THEN [mgr EXCEPT !.instance = mgr.nObjs + 1, !.nObjs = @ + 1,
                               !.initialized = FALSE, !.clsLock = NoThread]
              ELSE [mgr EXCEPT !.clsLock = NoThread]
    /\ Goto(t, "init_check")
    /\ UNCHANGED <<engineVarsButPc, loc, calls, fsVars, hostVarsButMgr>>

\* __new__ returns cls._instance; __init__: `if hasattr(self, '_initialized')
\* and self._initialized: return`
InitCheck(t) ==
    /\ pc[t] = "init_check"
    /\ IF mgr.initialized
       THEN /\ mgr' = [mgr EXCEPT !.got[t] = mgr.instance]
            /\ Goto(t, "ret")
       ELSE /\ Goto(t, "init_engines")
            /\ UNCHANGED mgr
    /\ UNCHANGED <<engineVarsButPc, loc, calls, fsVars, hostVarsButMgr>>

\* __init__: `self._engines = {}`
InitSetEngines(t) ==
    /\ pc[t] = "init_engines"
    /\ engines' = [p \in PluginIds |-> NoEngine]
    /\ Goto(t, "init_configs")
    /\ UNCHANGED <<configs, lockOwner, nEngines, eConfig, eOrigin, eLoaded, eCtx, eError,
                   eQueue, eRunning, callerEval, nSubmitted, lastStarted, loc, calls,
                   fsVars, hostVars>>

\* __init__: `self._configs = {}`
InitSetConfigs(t) ==
    /\ pc[t] = "init_configs"
    /\ configs' = [p \in PluginIds |-> NoConfig]
    /\ Goto(t, "init_flag")
    /\ UNCHANGED <<engines, lockOwner, nEngines, eConfig, eOrigin, eLoaded, eCtx, eError,
                   eQueue, eRunning, callerEval, nSubmitted, lastStarted, loc, calls,
                   fsVars, hostVars>>

\* __init__: `self._engine_lock = threading.RLock(); self._initialized = True`
InitSetFlag(t) ==
    /\ pc[t] = "init_flag"
    /\ lockOwner' = NoThread
    /\ mgr' = [mgr EXCEPT !.initialized = TRUE, !.got[t] = mgr.instance]
    /\ Goto(t, "ret")
    /\ UNCHANGED <<engines, configs, nEngines, eConfig, eOrigin, eLoaded, eCtx, eError,
                   eQueue, eRunning, callerEval, nSubmitted, lastStarted, loc, calls,
                   fsVars, hostVarsButMgr>>

\* A thread uses the registry it got from PluginManager().
HasManager(t) == mgr.got[t] # 0

\* ------------------------------------------------------------ the system
InitEngines ==
    /\ engines = [p \in PluginIds |-> NoEngine]
    /\ configs = [p \in PluginIds |-> NoConfig]
    /\ lockOwner = NoThread
    /\ nEngines = 0
    /\ eConfig = [e \in Engines |-> NoConfig]
    /\ eOrigin = [e \in Engines |-> "none"]
    /\ eLoaded = [e \in Engines |-> FALSE]
    /\ eCtx = [e \in Engines |-> "None"]
    /\ eError = [e \in Engines |-> "None"]
    /\ eQueue = [e \in Engines |-> <<>>]
    /\ eRunning = [e \in Engines |-> {}]
    /\ callerEval = [e \in Engines |-> {}]
    /\ nSubmitted = [e \in Engines |-> 0]
    /\ lastStarted = [e \in Engines |-> 0]
    /\ pc = [t \in Callers |-> "idle"]
    /\ loc = [t \in Callers |-> NoLoc]
    /\ calls = 0

InitFS ==
    /\ fs = InitTree
    /\ fsLast = NoFsCall
    /\ fsOps = 0

\* The host-side state an engine starts with (PluginEngine.__init__,
\* TtsrvRuntime.__init__ with a definition that has no variables)
NoCryptoCall == [n |-> 0, engine |-> NoEngine, transformation |-> <<>>, keyLen |-> 0, iv |-> "undefined",
                 handle |-> NoHandle, received |-> "none", created |-> FALSE]
NoCodecCall == [op |-> "none", input |-> <<>>, text |-> <<>>, output |-> <<>>]
NoVarCall == [n |-> 0, op |-> "none", key |-> "none", arg |-> "None", result |-> "None",
              userBefore |-> EmptyVars, defBefore |-> EmptyVars]

InitHostEngines ==
    /\ eExecutor = [e \in Engines |-> "running"]
    /\ eCrypto = [e \in Engines |-> {}]
    /\ eCryptoCounter = [e \in Engines |-> 0]
    /\ cryptoLast = NoCryptoCall

InitVarStore ==
    /\ defVars = EmptyVars
    /\ userVars = EmptyVars
    /\ varLast = NoVarCall
    /\ varObjs = NewVarObjs(EmptyVars)

\* The registry as the process has it once get_plugin_manager() returned
ManagerReady == [instance |-> 1, nObjs |-> 1, clsLock |-> NoThread, initialized |-> TRUE,
                 got |-> [t \in Callers |-> 1]]

\* The PluginManager class before anything constructed it
NoManager == [instance |-> 0, nObjs |-> 0, clsLock |-> NoThread, initialized |-> FALSE,
              got |-> [t \in Callers |-> 0]]

InitHost ==
    /\ InitHostEngines
    /\ mgr = ManagerReady
    /\ audio = NoAudio
    /\ rhino = NoRhino
    /\ InitVarStore
    /\ codecLast = NoCodecCall

Init == InitEngines /\ InitFS /\ InitHost

Next ==
    \/ \E t \in Callers, cfg \in Configs : CallRegister(t, cfg)
    \/ \E t \in Callers, id \in PluginIds : CallUnregister(t, id)
    \/ \E t \in Callers, id \in PluginIds : CallReload(t, id)
    \/ \E t \in Callers : CallUnregisterAll(t)
    \/ \E t \in Callers, id \in PluginIds : CallSynthesize(t, id)
    \/ \E t \in Callers, id \in PluginIds, op \in {"get_locales", "get_voices"} :
            CallEnumerate(t, op, id)
    \/ \E t \in Callers, cfg \in Configs : CallEngineLoad(t, cfg)
    \/ \E t \in Callers, e \in Engines : CallEngineGetAudio(t, e)
    \/ \E t \in Callers : RegisterLock(t)
    \/ \E t \in Callers : UnregisterLock(t)
    \/ \E t \in Callers : ReloadLock(t)
    \/ \E t \in Callers : UnregisterAllLock(t)
    \/ \E t \in Callers : UnregisterAllLoop(t)
    \/ \E t \in Callers : UnregisterPop(t)
    \/ \E t \in Callers : UnloadCheck(t)
    \/ \E t \in Callers : UnloadHook(t)
    \/ \E t \in Callers : UnloadCleanup(t)
    \/ \E t \in Callers : UnregisterDone(t)
    \/ \E t \in Callers : NewEngine(t)
    \/ \E t \in Callers : LoadBegin(t)
    \/ \E t \in Callers : LoadEval(t)
    \/ \E t \in Callers : LoadHook(t)
    \/ \E t \in Callers : Insert(t)
    \/ \E t \in Callers : SynthesizeLookup(t)
    \/ \E t \in Callers : SynthesizeIsLoaded(t)
    \/ \E t \in Callers : GetAudio(t)
    \/ \E t \in Callers : EnumerateLookup(t)
    \/ \E t \in Callers : Enumerate(t)
    \/ \E t \in Callers, id \in PluginIds : CallIsLoaded(t, id)
    \/ \E t \in Callers : IsLoadedLookup(t)
    \/ \E t \in Callers : IsLoadedRead(t)
    \/ \E t \in Callers : Return(t)
    \/ \E e \in Engines : WorkerStart(e)
    \/ \E e \in Engines : WorkerFinish(e)

Spec == Init /\ [][Next]_vars

\* An engine object used directly by the code that constructed it
NextEngine ==
    \/ \E t \in Callers, cfg \in Configs : CallEngineLoad(t, cfg)
    \/ \E t \in Callers, e \in Engines : CallLoad(t, e)
    \/ \E t \in Callers, e \in Engines : CallEngineUnload(t, e)
    \/ \E t \in Callers, e \in Engines : CallEngineGetAudio(t, e)
    \/ \E t \in Callers, e \in Engines, op \in {"get_locales", "get_voices"} :
            CallEngineEnumerate(t, e, op)
    \/ \E t \in Callers : NewEngine(t)
    \/ \E t \in Callers : LoadBegin(t)
    \/ \E t \in Callers : LoadEval(t)
    \/ \E t \in Callers : LoadHook(t)
    \/ \E t \in Callers : UnloadCheck(t)
    \/ \E t \in Callers : UnloadHook(t)
    \/ \E t \in Callers : UnloadCleanup(t)
    \/ \E t \in Callers : UnregisterDone(t)
    \/ \E t \in Callers : GetAudio(t)
    \/ \E t \in Callers : Enumerate(t)
    \/ \E t \in Callers : Return(t)
    \/ \E e \in Engines : WorkerStart(e)
    \/ \E e \in Engines : WorkerFinish(e)

SpecEngine == Init /\ [][NextEngine]_vars

\* The same, with guest code that creates ciphers and a creator that drops
\* the engine object
NextTeardown ==
    \/ NextEngine
    \/ CreateSampleCrypto
    \/ \E e \in Engines : Del(e)

SpecTeardown == Init /\ [][NextTeardown]_vars

\* Plugins that create ciphers while their source and init hooks evaluate
\* (one thread loads them, one after the other)
NextCrypto ==
    \/ \E cfg \in Configs : CallEngineLoad("t1", cfg)
    \/ NewEngine("t1")
    \/ LoadBegin("t1")
    \/ LoadEval("t1")
    \/ LoadHook("t1")
    \/ Return("t1")
    \/ CreateAnyCrypto

SpecCrypto == Init /\ [][NextCrypto]_vars

\* The conversions of the host bridge on their own: guest code holds a
\* byte array, and the host converts it, or encodes it and decodes the text.
InitCodec ==
    /\ InitEngines /\ InitFS /\ InitHostEngines /\ InitVarStore
    /\ mgr = ManagerReady
    /\ audio = NoAudio
    /\ rhino = NoRhino
    /\ codecLast \in { [NoCodecCall EXCEPT !.input = arr] : arr \in JsByteArrays }

NextCodec == ConvertJsBytes \/ ArrayToBase64 \/ Base64ToByteArray

SpecCodec == InitCodec /\ [][NextCodec]_vars

\* The registry from the first PluginManager() of the process on: threads
\* construct it, and a thread that got it registers plugins.
InitSingleton ==
    /\ InitEngines /\ InitFS /\ InitHostEngines /\ InitVarStore
    /\ mgr = NoManager
    /\ audio = NoAudio
    /\ rhino = NoRhino
    /\ codecLast = NoCodecCall

NextSingleton ==
    \/ \E t \in Callers : CallConstruct(t)
    \/ \E t \in Callers : NewCheck(t)
    \/ \E t \in Callers : NewLock(t)
    \/ \E t \in Callers : NewMake(t)
    \/ \E t \in Callers : InitCheck(t)
    \/ \E t \in Callers : InitSetEngines(t)
    \/ \E t \in Callers : InitSetConfigs(t)
    \/ \E t \in Callers : InitSetFlag(t)
    \/ \E t \in Callers, cfg \in Configs : HasManager(t) /\ CallRegister(t, cfg)
    \/ \E t \in Callers : RegisterLock(t)
    \/ \E t \in Callers : UnregisterPop(t)
    \/ \E t \in Callers : UnloadCheck(t)
    \/ \E t \in Callers : UnloadHook(t)
    \/ \E t \in Callers : UnloadCleanup(t)
    \/ \E t \in Callers : UnregisterDone(t)
    \/ \E t \in Callers : NewEngine(t)
    \/ \E t \in Callers : LoadBegin(t)
    \/ \E t \in Callers : LoadEval(t)
    \/ \E t \in Callers : LoadHook(t)
    \/ \E t \in Callers : Insert(t)
    \/ \E t \in Callers : Return(t)

SpecSingleton == InitSingleton /\ [][NextSingleton]_vars

\* One getAudioSampleRate call on each of the buffers; a call that has begun
\* runs on
InitAudio ==
    /\ InitEngines /\ InitFS /\ InitHostEngines /\ InitVarStore
    /\ mgr = ManagerReady
    /\ codecLast = NoCodecCall
    /\ \E data \in AudioBuffers : audio = [NoAudio EXCEPT !.data = data, !.at = "call"]
    /\ rhino = NoRhino

NextAudio ==
    \/ GetAudioSampleRate
    \/ WavStep
    \/ Mp3Step

SpecAudio == InitAudio /\ [][NextAudio]_vars /\ WF_vars(NextAudio)

\* The compatibility layer applied to each of the sources
InitRhino ==
    /\ InitEngines /\ InitFS /\ InitHostEngines /\ InitVarStore
    /\ mgr = ManagerReady
    /\ codecLast = NoCodecCall
    /\ audio = NoAudio
    /\ \E code \in Sources(MaxItems) : rhino = [NoRhino EXCEPT !.code = code]

NextRhino ==
    \/ PreprocessCode
    \/ RemoveJavaImports
    \/ DetectRhinoFeatures

SpecRhino == InitRhino /\ [][NextRhino]_vars

\* The variable store of one plugin: TtsrvRuntime(plugin_id, user_vars,
\* def_vars) with the variables of the plugin's definition, then the calls.
InitVars ==
    /\ InitEngines /\ InitFS /\ InitHostEngines
    /\ mgr = ManagerReady
    /\ audio = NoAudio
    /\ rhino = NoRhino
    /\ defVars \in VarMaps
    /\ userVars \in VarMaps
    /\ varLast = NoVarCall
    /\ varObjs = NewVarObjs(userVars)
    /\ codecLast = NoCodecCall

NextVars ==
    \/ \E key \in Keys, value \in Vals : SetVar(key, value)
    \/ \E key \in Keys, default \in Vals : GetVar(key, default)
    \/ \E key \in Keys : RemoveVar(key)
    \/ GetUserVars

SpecVars == InitVars /\ [][NextVars]_vars

\* The sandboxed filesystem of one plugin on its own
NextFS == FsOneArg \/ FsTwoArgs

SpecFS == Init /\ [][NextFS]_vars

\* ----------------------------------------------------------------------
\* Claims
\* ----------------------------------------------------------------------
Constructed == 1..nEngines
Pending(e) == { eQueue[e][i] : i \in 1..Len(eQueue[e]) } \cup eRunning[e]

C2_OneGuestExecutionPerInstance ==
    \A e \in Engines : Cardinality(eRunning[e]) + Cardinality(callerEval[e]) <= 1

\* C3: the guest executions of get_audio / get_locales / get_voices calls
\* on one engine instance never overlap, and they start in the order in
\* which they were submitted to the instance's worker.
C3_WorkItemsSerialInOrder ==
    \A e \in Engines :
        /\ Cardinality(eRunning[e]) <= 1
        /\ \A i \in 1..Len(eQueue[e]) : eQueue[e][i].seq > lastStarted[e]
        /\ \A i, j \in 1..Len(eQueue[e]) : i < j => eQueue[e][i].seq < eQueue[e][j].seq
        /\ \A task \in eRunning[e] : task.seq <= lastStarted[e]

\* C3 witness: on a loaded instance one call executes while another waits.
C3_Witness ==
    \E e \in Engines : eLoaded[e] /\ eRunning[e] # {} /\ eQueue[e] # <<>>

\* C4: every PluginAudioResult handed to a caller has either audio and no
\* error, or an error and no audio; is_success() holds exactly in the
\* first case.
C4_AudioXorError ==
    \A t \in Callers :
        (pc[t] = "ret" /\ loc[t].res.type = "audio") =>
            LET r == loc[t].res
                hasAudio == r.audio # "None"
                hasError == r.error # "None"
            IN /\ (hasAudio /\ ~hasError) \/ (hasError /\ ~hasAudio)
               /\ is_success(r) <=> (hasAudio /\ ~hasError)

\* C5: when the guest entry point throws, the caller gets no exception:
\* get_audio returns a result carrying an error message, get_locales the
\* default locale list, get_voices the empty list.
C5_GuestThrowContained ==
    \A t \in Callers :
        (pc[t] = "ret" /\ loc[t].guest = "threw") =>
            CASE loc[t].op \in {"synthesize", "get_audio"} ->
                     loc[t].res = PluginAudioResult("None", "msg")
              [] loc[t].op = "get_locales" -> loc[t].res = LocalesRes("default")
              [] loc[t].op = "get_voices"  -> loc[t].res = VoicesRes("empty")
              [] OTHER -> FALSE

\* C5 witness: a get_locales call whose guest entry point threw has returned.
C5_Witness ==
    \E t \in Callers :
        pc[t] = "ret" /\ loc[t].guest = "threw" /\ loc[t].op = "get_locales"

\* C6: while register constructs and loads the new instance, the identifier
\* is unregistered and the instance it replaced is unloaded; when the load
\* fails register returns false and nothing is registered under the identifier.
C6_RegisterReplacesOrLeavesNone ==
    \A t \in Callers :
        loc[t].op = "register" =>
            /\ pc[t] \in {"new_engine", "load_begin", "load_eval", "load_hook", "insert"} =>
                  /\ engines[loc[t].id] = NoEngine
                  /\ loc[t].old # NoEngine =>
                        ~eLoaded[loc[t].old] /\ eCtx[loc[t].old] = "None"
            /\ (pc[t] = "ret" /\ loc[t].loadFailed) =>
                  /\ loc[t].res = BoolRes(FALSE)
                  /\ engines[loc[t].id] = NoEngine
                  /\ configs[loc[t].id] = NoConfig

\* C6 witness: a register of an identifier that was registered has failed to load.
C6_Witness ==
    \E t \in Callers :
        /\ loc[t].op = "register" /\ pc[t] = "ret"
        /\ loc[t].loadFailed /\ loc[t].old # NoEngine

\* C7: among the engine instances the registry created, at most one per
\* plugin identifier is loaded.
C7_OneLoadedInstancePerId ==
    \A id \in PluginIds :
        Cardinality({ e \in Constructed : /\ eOrigin[e] \in {"registry", "published"}
                                          /\ eConfig[e].pluginId = id
                                          /\ eLoaded[e] }) <= 1

\* C7 witness: a register has replaced an instance and loaded the new one
\* while another mutation of the same identifier waits for the lock.
C7_Witness ==
    \E t, u \in Callers :
        /\ t # u /\ pc[t] = "insert" /\ loc[t].old # NoEngine /\ eLoaded[loc[t].eng]
        /\ pc[u] \in {"reg_lock", "rel_lock", "unr_lock"} /\ loc[u].id = loc[t].id

\* C8: a load that failed before the init hook reported failure, left the
\* instance unloaded without a context and with the error recorded, and a
\* get_audio on that instance returns an error result.
C8_FailedLoadLeavesUnloaded ==
    /\ \A e \in Constructed :
          eError[e] = "err" => ~eLoaded[e] /\ eCtx[e] = "None"
    /\ \A t \in Callers :
          /\ (pc[t] = "ret" /\ loc[t].loadFailed) =>
                loc[t].res = BoolRes(FALSE) /\ eError[loc[t].eng] = "err"
          /\ (pc[t] = "ret" /\ loc[t].op = "get_audio" /\ eError[loc[t].eng] = "err") =>
                loc[t].res = PluginAudioResult("None", "msg") /\ loc[t].guest = "none"

\* C8 witness: get_audio has returned on an instance whose load failed.
C8_Witness ==
    \E t \in Callers :
        pc[t] = "ret" /\ loc[t].op = "get_audio" /\ eError[loc[t].eng] = "err"

\* C9: a synthesize / get_audio call never raises; when its instance is
\* not loaded, at the loaded test or when the worker starts the call after
\* a concurrent unregister, it runs no guest code and returns an error result.
C9_NotLoadedGivesErrorResult ==
    \A t \in Callers :
        /\ loc[t].res.type # "raised"
        /\ loc[t].atStart = "unloaded" => loc[t].guest = "not_run"
        /\ (pc[t] = "ret" /\ loc[t].op \in {"synthesize", "get_audio"}
              /\ loc[t].guest \in {"none", "not_run"}) =>
                loc[t].res = PluginAudioResult("None", "msg")

\* C9 witness: a synthesize call found its engine in the registry, the
\* instance was unloaded before the worker started the call, and the call
\* has returned.
C9_Witness ==
    \E t \in Callers :
        /\ pc[t] = "ret" /\ loc[t].op = "synthesize"
        /\ loc[t].eng # NoEngine /\ loc[t].atStart = "unloaded"

\* C10: when unload discards the execution context, every call submitted
\* to the instance's worker before the unload has completed, and no call
\* is started against a discarded context.
C10_UnloadAfterDrain ==
    \A t \in Callers :
        /\ (pc[t] = "unload_done" /\ eCtx[loc[t].old] = "None") =>
              \A task \in Pending(loc[t].old) : task.seq > loc[t].mark
        /\ loc[t].atStart # "unloaded"

\* Where each registry call looks its identifier up.
LookupPc(op) ==
    CASE op = "unregister" -> "unreg_pop"
      [] op = "reload"     -> "rel_lock"
      [] op = "synthesize" -> "syn_lookup"
      [] op = "is_loaded"  -> "il_lookup"
      [] op \in {"get_locales", "get_voices"} -> "enum_lookup"
      [] OTHER -> "never"

\* The step in which call t looks up an identifier that is not registered.
LooksUpAbsent(t) ==
    /\ pc[t] = LookupPc(loc[t].op)
    /\ pc'[t] # pc[t]
    /\ engines[loc[t].id] = NoEngine

\* C11 (as stated): for an identifier that is not registered, unregister,
\* reload and is_loaded return false, and synthesize, get_locales and
\* get_voices each return a result that carries an error; the call raises
\* nothing and leaves the registry as it was.
C11_NotFoundErrorResult ==
    [][\A t \in Callers :
          LooksUpAbsent(t) =>
              /\ pc'[t] = "ret"
              /\ engines' = engines /\ configs' = configs
              /\ loc'[t].res.type # "raised"
              /\ loc[t].op \in {"unregister", "reload", "is_loaded"} =>
                    loc'[t].res = BoolRes(FALSE)
              /\ loc[t].op \in {"synthesize", "get_locales", "get_voices"} =>
                    loc'[t].res.error # "None"]_vars

\* C11 (amended): as above, except that get_locales and get_voices return
\* the empty list (which carries no error) for an unregistered identifier.
C11_NotFoundResult ==
    [][\A t \in Callers :
          LooksUpAbsent(t) =>
              /\ pc'[t] = "ret"
              /\ engines' = engines /\ configs' = configs
              /\ loc'[t].res.type # "raised"
              /\ loc[t].op \in {"unregister", "reload", "is_loaded"} =>
                    loc'[t].res = BoolRes(FALSE)
              /\ loc[t].op = "synthesize" =>
                    loc'[t].res = PluginAudioResult("None", "msg")
              /\ loc[t].op = "get_locales" => loc'[t].res = LocalesRes("empty")
              /\ loc[t].op = "get_voices" => loc'[t].res = VoicesRes("empty")]_vars

\* C11 witness: get_locales of an unregistered identifier has returned the
\* empty list while another identifier is registered.
C11_Witness ==
    \E t \in Callers :
        /\ pc[t] = "ret" /\ loc[t].op = "get_locales" /\ loc[t].eng = NoEngine
        /\ loc[t].res = LocalesRes("empty")
        /\ \E id \in PluginIds : engines[id] # NoEngine

\* What register(d) does once it holds the lock, for call t with d = loc[t].cfg:
\* the identifier is unregistered and the old instance unloaded while a
\* fresh instance is constructed from d and loaded; on success the identifier
\* maps to the fresh, loaded instance with definition d; on a failed load the
\* call returns false and nothing is registered under the identifier.
RegisterOutcome(t) ==
    LET id == loc[t].id  eng == loc[t].eng  old == loc[t].old IN
    /\ pc[t] \in {"new_engine", "load_begin", "load_eval", "load_hook", "insert"} =>
          /\ loc[t].cfg.pluginId = id
          /\ engines[id] = NoEngine /\ configs[id] = NoConfig
          /\ old # NoEngine => ~eLoaded[old] /\ eCtx[old] = "None"
    /\ pc[t] \in {"load_begin", "load_eval", "load_hook", "insert"} =>
          eng # old /\ eConfig[eng] = loc[t].cfg
    /\ pc[t] = "insert" => eLoaded[eng]
    /\ (pc[t] = "ret" /\ loc[t].res = BoolRes(TRUE)) =>
          /\ engines[id] = eng /\ configs[id] = loc[t].cfg
          /\ eLoaded[eng] /\ eConfig[eng] = loc[t].cfg /\ eng # old
    /\ (pc[t] = "ret" /\ loc[t].loadFailed) =>
          /\ loc[t].res = BoolRes(FALSE)
          /\ engines[id] = NoEngine /\ configs[id] = NoConfig

\* C12: reload(id) of a registered identifier proceeds as register(d) with
\* d the definition registered for id: once it holds the lock its d is the
\* stored definition and the identifier is registered, and from there on
\* reload and register satisfy the same outcome.
C12_ReloadIsRegisterOfLastDefinition ==
    \A t \in Callers :
        /\ (loc[t].op = "reload" /\ pc[t] = "unreg_pop") =>
              /\ loc[t].cfg = configs[loc[t].id]
              /\ loc[t].cfg \in Configs
              /\ engines[loc[t].id] # NoEngine
        /\ loc[t].op \in {"register", "reload"} => RegisterOutcome(t)

\* C12 witness: a reload of a registered identifier has returned true.
C12_Witness ==
    \E t \in Callers :
        /\ pc[t] = "ret" /\ loc[t].op = "reload" /\ loc[t].res = BoolRes(TRUE)
        /\ loc[t].old # NoEngine /\ engines[loc[t].id] = loc[t].eng

\* The step of call t leaves engine e as it was and runs no guest code on it.
EngineUntouched(t, e) ==
    /\ eCtx'[e] = eCtx[e] /\ eLoaded'[e] = eLoaded[e] /\ eError'[e] = eError[e]
    /\ callerEval'[e] = callerEval[e] /\ eRunning'[e] = eRunning[e]
    /\ eQueue'[e] = eQueue[e]

\* C13: load() on a loaded instance returns true at once and unload() on
\* an instance that is not loaded returns at once; neither runs guest code
\* nor changes the context, the loaded flag or the recorded error.
C13_LoadUnloadIdempotent ==
    [][\A t \in Callers :
          /\ (pc[t] = "load_begin" /\ pc'[t] # pc[t] /\ eLoaded[loc[t].eng]) =>
                /\ pc'[t] = IF loc[t].op = "engine_load" THEN "ret" ELSE "insert"
                /\ loc[t].op = "engine_load" => loc'[t].res = BoolRes(TRUE)
                /\ ~loc'[t].loadFailed
                /\ EngineUntouched(t, loc[t].eng)
          /\ (pc[t] = "unload_check" /\ pc'[t] # pc[t] /\ ~eLoaded[loc[t].old]) =>
                /\ pc'[t] = "unload_done"
                /\ EngineUntouched(t, loc[t].old)]_vars

\* C13 witness: a load() that found its instance loaded has returned.
C13_Witness ==
    \E t \in Callers :
        /\ pc[t] = "ret" /\ loc[t].op = "engine_load" /\ loc[t].found = "loaded"
        /\ loc[t].res = BoolRes(TRUE) /\ eLoaded[loc[t].eng]

\* C14: an exception thrown by the init hook does not keep load() from
\* succeeding and leaving the instance loaded, an exception thrown by the
\* teardown hook does not keep unload() from leaving the instance unloaded,
\* and neither reaches the caller.
C14_HookFailuresDiscarded ==
    \A t \in Callers :
        /\ loc[t].res.type # "raised"
        /\ (loc[t].hook = "threw" /\ pc[t] \in {"insert", "ret"}) =>
              /\ ~loc[t].loadFailed
              /\ loc[t].res # BoolRes(FALSE)
              /\ pc[t] = "insert" => eLoaded[loc[t].eng]
        /\ (loc[t].teardown = "threw" /\ pc[t] = "unload_done") =>
              ~eLoaded[loc[t].old] /\ eCtx[loc[t].old] = "None"

\* C15: a get_locales() on an engine instance that obtains no locale list
\* from the plugin (the call is not dispatched or cannot run, the entry point
\* throws, is not defined or gives no list) returns the default locale list,
\* get_voices() in the same cases returns the empty list, and neither raises.
C15_NoListFallback ==
    \A t \in Callers :
        (pc[t] = "ret" /\ loc[t].op \in {"get_locales", "get_voices"}
            /\ loc[t].eng # NoEngine) =>
            /\ loc[t].res.type # "raised"
            /\ loc[t].guest \in {"none", "not_run", "threw", "nolist"} =>
                  loc[t].res = IF loc[t].op = "get_locales" THEN LocalesRes("default")
                                                           ELSE VoicesRes("empty")

\* C16: when unload() of a loaded engine instance completes, the instance
\* has no execution context, its worker is shut down and its table of
\* cipher handles is empty.
C16_UnloadReleasesAll ==
    [][\A t \in Callers :
          (pc[t] = "unload_cleanup" /\ pc'[t] = "unload_done" /\ loc[t].found = "loaded") =>
              /\ eCtx'[loc[t].old] = "None"
              /\ eExecutor'[loc[t].old] = "shutdown"
              /\ eCrypto'[loc[t].old] = {}]_vars

\* Is the transformation, with this IV, one the claim calls ill-formed?
IllFormed(transformation, iv) ==
    LET parts == Split(transformation) IN
    \/ Len(parts) # 3
    \/ Upper(parts[1]) \notin {<<"AES">>, <<"DES">>}
    \/ Upper(parts[2]) \notin {<<"ECB">>, <<"CBC">>}
    \/ Upper(parts[3]) \notin {<<"PKCS5PADDING">>, <<"PKCS7PADDING">>}
    \/ Upper(parts[2]) = <<"CBC">> /\ iv = "undefined"

\* C17: a createSymmetricCrypto call with an ill-formed transformation (not
\* three parts, an algorithm other than AES/DES, a mode other than ECB/CBC, a
\* padding other than PKCS5/PKCS7, CBC without an IV) creates no cipher
\* handle and hands its caller an error, not a cipher object.
C17_IllFormedCipherRejected ==
    (cryptoLast.engine # NoEngine /\ IllFormed(cryptoLast.transformation, cryptoLast.iv)) =>
        /\ ~cryptoLast.created
        /\ cryptoLast.handle = NoHandle
        /\ cryptoLast.received = "error"

\* C18: _convert_js_bytes maps each element b of its input to b mod 256:
\* the output has the input's length and every value lies in 0..255.
C18_ConvertJsBytesMod256 ==
    codecLast.op = "convert" =>
        /\ Len(codecLast.output) = Len(codecLast.input)
        /\ \A i \in 1..Len(codecLast.input) :
              /\ codecLast.output[i] = codecLast.input[i] % 256
              /\ codecLast.output[i] \in 0..255

C18_Witness ==
    /\ codecLast.op = "convert"
    /\ codecLast.input = <<0 - 1, 0 - 128, 127, 0>>
    /\ codecLast.output = <<255, 128, 127, 0>>

\* C19: decoding the text that encoding a byte sequence gave returns that
\* byte sequence, zero bytes included.
C19_Base64RoundTrip ==
    (codecLast.op = "decode" /\ \A i \in 1..Len(codecLast.input) : codecLast.input[i] \in 0..255) =>
        codecLast.output = codecLast.input

C19_Witness ==
    /\ codecLast.op = "decode"
    /\ codecLast.input = <<0, 255, 0, 127>>
    /\ codecLast.text = <<"A", "P", "8", "A", "f", "w", "=", "=">>
    /\ codecLast.output = codecLast.input

\* C20: after any sequence of setVar, getVar and removeVar calls, getVar
\* returns the value the merged variables (user over default) hold for the
\* key, or the caller's fallback when they hold none; getVar changes no
\* variable, and setVar and removeVar never change the default variables.
C20_UserOverDefaultOverFallback ==
    /\ varLast.op = "getVar" =>
          LET merged == get_merged_vars(varLast.defBefore, varLast.userBefore)
          IN /\ varLast.result = IF varLast.key \in DOMAIN merged THEN merged[varLast.key]
                                                                   ELSE varLast.arg
             /\ varLast.key \in DOMAIN varLast.userBefore =>
                   varLast.result = varLast.userBefore[varLast.key]
             /\ userVars = varLast.userBefore
    /\ varLast.op # "none" => defVars = varLast.defBefore

C20_Witness ==
    /\ varLast.op = "getVar"
    /\ varLast.n = MaxVarOps
    /\ varLast.key \in DOMAIN varLast.userBefore \cap DOMAIN varLast.defBefore
    /\ varLast.userBefore[varLast.key] # varLast.defBefore[varLast.key]
    /\ varLast.result = varLast.userBefore[varLast.key]
    /\ varLast.result # varLast.arg

\* C21: get_user_vars() returns the user variables as every setVar and
\* removeVar so far left them; a snapshot once returned does not change
\* when the store is written later; and no write changes the userVars map
\* of the plugin definition the runtime was built from.
C21_SnapshotIndependent ==
    /\ varLast.op = "getUserVars" => varObjs.snap = userVars
    /\ varLast.op = "setVar" =>
          varLast.key \in DOMAIN userVars /\ userVars[varLast.key] = varLast.arg
    /\ varLast.op = "removeVar" => varLast.key \notin DOMAIN userVars
    /\ varObjs.hasSnap => varObjs.snap = varObjs.snapAt
    /\ varObjs.cfg = varObjs.cfg0

C21_Witness ==
    /\ varObjs.hasSnap
    /\ varLast.op \in {"setVar", "removeVar"}
    /\ varObjs.snapAt # userVars
    /\ varObjs.snapAt # varObjs.cfg0
    /\ varObjs.snap = varObjs.snapAt
    /\ varObjs.cfg # userVars

\* Did the guest code of caller t's call run, for one of these operations?
GuestRan(t, ops) ==
    /\ pc[t] = "ret"
    /\ loc[t].op \in ops
    /\ loc[t].guest \notin {"none", "not_run"}

\* The entry points are called in the fixed order EditorJS, PluginJS, the
\* second only when the first is undefined or gave nothing.
FixedOrder(t) ==
    /\ loc[t].probe.called \in {<<>>, <<"EditorJS">>, <<"PluginJS">>, <<"EditorJS", "PluginJS">>}
    /\ loc[t].probe.called = <<"EditorJS", "PluginJS">> =>
          loc[t].probe.E \in {"nonarray", "empty"}
    /\ loc[t].probe.called = <<"PluginJS">> => loc[t].probe.E = "undef"

\* A list the plugin defines under either convention is what the caller gets.
EnumServed(t) ==
    LET pr == loc[t].probe
        Res(src) == IF loc[t].op = "get_locales" THEN LocalesRes(src) ELSE VoicesRes(src)
    IN /\ pr.E = "list" => loc[t].res = Res("E")
       /\ (pr.E \in {"undef", "nonarray", "empty"} /\ pr.P = "list") => loc[t].res = Res("P")

\* C22 (as stated): synthesis, get_locales and get_voices all probe EditorJS
\* then PluginJS in that order, so that an entry point defined under only one
\* of the two conventions serves the call.
C22_BothConventionsProbed ==
    \A t \in Callers :
        /\ GuestRan(t, {"get_locales", "get_voices"}) => FixedOrder(t) /\ EnumServed(t)
        /\ GuestRan(t, {"synthesize", "get_audio"}) =>
              /\ FixedOrder(t)
              /\ (loc[t].probe.E = "audio" /\ loc[t].probe.P = "undef") =>
                    is_success(loc[t].res)

\* C22 (amended): get_locales and get_voices probe EditorJS then PluginJS;
\* synthesis calls PluginJS.getAudio only, and a getAudio defined on
\* EditorJS alone gives an error result.
C22_EnumerationProbesBoth ==
    \A t \in Callers :
        /\ GuestRan(t, {"get_locales", "get_voices"}) => FixedOrder(t) /\ EnumServed(t)
        /\ GuestRan(t, {"synthesize", "get_audio"}) =>
              /\ loc[t].probe.called \in {<<>>, <<"PluginJS">>}
              /\ loc[t].probe.P = "undef" => ~is_success(loc[t].res)

C22_Witness ==
    \E t \in Callers :
        /\ GuestRan(t, {"get_locales"})
        /\ loc[t].probe.called = <<"EditorJS", "PluginJS">>
        /\ loc[t].probe.E = "empty"
        /\ loc[t].res = LocalesRes("P")

\* C23: every PluginManager() yields the same instance, in any
\* interleaving, and a construction never empties or replaces the set of
\* engines already registered.
C23_OneRegistryNeverReset ==
    /\ [](\A t \in Callers, u \in Callers :
            (mgr.got[t] # 0 /\ mgr.got[u] # 0) => mgr.got[t] = mgr.got[u])
    /\ [][\A t \in Callers :
            (loc[t].op = "construct" /\ pc'[t] # pc[t]) =>
                engines' = engines /\ configs' = configs]_vars

\* The buffer is RIFF/WAVE as far as it goes
RiffWave(data) ==
    \A i \in 1..Least(Len(data), 12) :
        /\ i <= 4 => data[i] = MAGIC_RIFF[i]
        /\ i >= 9 => data[i] = MAGIC_WAVE[i - 8]

\* Where the walk from `offset` meets the fmt chunk, -1 when it runs off the
\* buffer first
RECURSIVE FmtChunkAt(_, _)
FmtChunkAt(data, offset) ==
    IF offset + 8 > Len(data) THEN 0 - 1
    ELSE IF Slice(data, offset, offset + 4) = FmtId THEN offset
    ELSE LET size == unpack_I(Slice(data, offset + 4, offset + 8))
         IN  FmtChunkAt(data, offset + 8 + size + (size % 2))

\* The sample-rate field of the fmt chunk the walk meets, -1 without one
RateField(data) ==
    LET at == FmtChunkAt(data, 12)
    IN  IF at >= 0 /\ at + 16 <= Len(data)
        THEN unpack_I(Slice(data, at + 12, at + 16)) ELSE 0 - 1

\* C24: for a RIFF/WAVE buffer the call returns the sample-rate field of the
\* fmt chunk that the sub-chunk walk from offset 12 meets (skipping 8 + size
\* bytes and a pad byte after an odd size), whatever the field holds; a buffer
\* too short for the header returns 22050.
C24_WavRateField ==
    (audio.at = "done" /\ RiffWave(audio.data)) =>
        /\ Len(audio.data) < 28 => audio.result = DEFAULT_SAMPLE_RATE
        /\ (Len(audio.data) >= 28 /\ RateField(audio.data) >= 0) =>
                audio.result = RateField(audio.data)

\* C24 (as the code has it): the field is returned when it lies in
\* 1000..192000, and 22050 otherwise.
C24_WavPlausibleRateField ==
    (audio.at = "done" /\ RiffWave(audio.data)) =>
        /\ Len(audio.data) < 28 => audio.result = DEFAULT_SAMPLE_RATE
        /\ (Len(audio.data) >= 28 /\ RateField(audio.data) >= 0) =>
                audio.result = IF Plausible(RateField(audio.data))
                               THEN RateField(audio.data) ELSE DEFAULT_SAMPLE_RATE

\* 44100 is returned from a fmt chunk that follows a sub-chunk of odd size
C24_Witness ==
    /\ audio.at = "done" /\ audio.format = "wav" /\ audio.walked
    /\ unpack_I(Slice(audio.data, 16, 20)) % 2 = 1
    /\ audio.result = 44100

\* The rate is read out of the header of the detected format
Decoded(a) ==
    CASE a.format = "mp3" -> \E v \in DOMAIN MP3_SAMPLE_RATES, i \in 1..4 :
                                a.result = MP3_SAMPLE_RATES[v][i] /\ a.result > 0
      [] a.format = "flac" -> /\ Len(a.data) >= 21
                              /\ a.result = a.data[19] * 4096 + a.data[20] * 16
                                               + (a.data[21] \div 16)
      [] a.format \in {"wav", "ogg"} ->
            \E i \in 0..Len(a.data) : a.result = unpack_I(Slice(a.data, i, i + 4))
      [] OTHER -> FALSE

\* C25: every call ends, with 22050 or a rate decoded from the header of the
\* detected format, and each iteration of the WAV walk and of the MP3 scan
\* moves the offset forward.
C25_SampleRateTerminates ==
    /\ <>(audio.at = "done")
    /\ [](audio.at = "done" => (audio.result = DEFAULT_SAMPLE_RATE \/ Decoded(audio)))
    /\ [][(audio.at \in {"wav", "mp3"} /\ audio'.at = audio.at) =>
                audio'.offset > audio.offset]_vars

\* A truncated WAV buffer whose walk ran off the end, answered with 22050
C25_Witness ==
    /\ audio.at = "done" /\ audio.format = "wav" /\ audio.walked
    /\ RateField(audio.data) < 0
    /\ audio.result = DEFAULT_SAMPLE_RATE

\* C26: the shim block is prepended exactly when detect_rhino_features of the
\* source is non-empty, and a source without a legacy construct comes out as
\* it went in.
C26_ShimIffFeatures ==
    {"preprocess", "detect"} \subseteq rhino.did =>
        /\ Has(rhino.output, {"shim"}) <=> rhino.features # <<>>
        /\ rhino.features = <<>> => rhino.output = rhino.code

Lines(code) == 1 + Cardinality({i \in 1..Len(code) : code[i] = "nl"})

\* C27: stripping the import declarations puts a comment in the place of
\* each and leaves the number of lines as it was.
C27_StripKeepsLines ==
    "strip" \in rhino.did =>
        /\ ~ImportSearch(rhino.stripped, "importPackage")
        /\ ~ImportSearch(rhino.stripped, "importClass")
        /\ Lines(rhino.stripped) = Lines(rhino.code)

\* The identifiers the engine map and the definition map hold
EngineKeys == {id \in PluginIds : engines[id] # NoEngine}
ConfigKeys == {id \in PluginIds : configs[id] # NoConfig}

\* C28: whenever no registry operation holds the lock, the engine map and the
\* definition map have the same keys, and every step of register, unregister,
\* reload and unregister_all adds or removes an identifier in both maps or
\* in neither.
C28_MapsShareKeys ==
    /\ [](lockOwner = NoThread => EngineKeys = ConfigKeys)
    /\ [][\A id \in PluginIds :
            ((engines'[id] = NoEngine) # (engines[id] = NoEngine))
                <=> ((configs'[id] = NoConfig) # (configs[id] = NoConfig))]_vars

\* C28 witness: an identifier was registered, its instance was unloaded for a
\* second register whose instance failed to load, the identifier is left in
\* neither map, and no operation holds the lock.
C28_Witness ==
    /\ lockOwner = NoThread
    /\ \E e \in Constructed, old \in Constructed :
          /\ eOrigin[e] = "registry" /\ eError[e] = "err"
          /\ eOrigin[old] = "published" /\ ~eLoaded[old]
          /\ eConfig[old].pluginId = eConfig[e].pluginId
          /\ eConfig[e].pluginId \notin EngineKeys \cup ConfigKeys

\* C29: the engine map holds loaded instances only, so a lookup under the
\* lock never returns an instance that was never loaded, failed to load or
\* is unloaded.
C29_MapHoldsLoadedOnly ==
    \A id \in PluginIds :
        engines[id] # NoEngine =>
            LET e == engines[id]
            IN  eLoaded[e] /\ eCtx[e] # "None" /\ eError[e] # "err"

\* C29 witness: an instance of the registry failed to load, and a synthesize
\* call has found an engine in the map.
C29_Witness ==
    /\ \E e \in Constructed : eOrigin[e] = "registry" /\ eError[e] = "err"
    /\ \E t \in Callers : loc[t].op = "synthesize" /\ pc[t] = "ret" /\ loc[t].eng # NoEngine

\* C30: whatever sandbox operations were made, the plugin's root directory
\* exists.
C30_RootDirectoryKept == IsDirAt(fs, BaseDir)

====
